---------------------------- MODULE Spec2Model ----------------------------
(***************************************************************************)
(* Cabineato geometry pipeline: configuration validation, the assembly     *)
(* builder and its generators (carcass, back panel, shelves, drawers),     *)
(* the useAssembly hook that consumes them, and the dogbone processor.     *)
(*                                                                         *)
(* Lengths are exact fixed-point numbers: one unit is 1/480 mm, so that    *)
(* every length constant of the source (6.35, 12.7, 19.05 ...), every half *)
(* of one, and a height split evenly over 1, 2, 3 or 4 drawers and then    *)
(* halved, is an integer.  mm(x) writes x millimetres.  The source         *)
(* computes in IEEE doubles; the model computes the same expressions       *)
(* exactly.                                                                *)
(***************************************************************************)
EXTENDS Integers, Sequences, FiniteSets, TLC

VARIABLES
    config,      \* useAssembly: the configuration held by useState
    clock,       \* the wall clock read by new Date()
    hook,        \* useAssembly: the memoised {assembly, validation} of config
    result,      \* outcome of the latest direct buildAssembly(config) call
    rect,        \* dogbone processor: the rectangle last handed to it
    dogbones,    \* dogbone processor: the fillets it returned
    nesting,     \* nesting: the arguments of the latest nestParts / packSheet call
    nested,      \* nesting: what that call returned
    invoked,     \* a geometry helper called on its own: its name and arguments
    returned     \* what that helper returned

vars == <<config, clock, hook, result, rect, dogbones, nesting, nested, invoked, returned>>

-----------------------------------------------------------------------------
(* Units and small helpers                                                 *)

mm(x) == x * 480

\* x / 10 mm and x / 100 mm, for the decimal constants of the source
tenths(x) == x * 48
hundredths(x) == (x * 48) \div 10

Abs(x) == IF x < 0 THEN -x ELSE x
Max(a, b) == IF a >= b THEN a ELSE b

\* Math.floor(a / b) for b > 0
Floor(a, b) == a \div b

\* An optional field: <<>> is undefined, <<v>> is the value v.
Undefined == <<>>
Some(v) == <<v>>
\* x ?? dflt
OrElse(x, dflt) == IF x = Undefined THEN dflt ELSE x[1]

\* null, for Component | null and Assembly | null
Null == [isNull |-> TRUE]

\* a / b of the source (a real division); exact on every value the model
\* draws, see the unit above
Div(a, b) == a \div b

\* A JavaScript number in a template literal: `${n}`.  n is in units of
\* 1/480 mm, printed in millimetres to four decimals with the trailing
\* zeros dropped.
RECURSIVE FractionDigits(_, _)
FractionDigits(n, places) ==
    IF n = 0 \/ places = 0 THEN ""
    ELSE LET scale == CASE places = 4 -> 1000 [] places = 3 -> 100
                        [] places = 2 -> 10 [] OTHER -> 1
         IN  ToString(n \div scale) \o FractionDigits(n % scale, places - 1)

NumberToString(n) ==
    LET Digits(whole, frac) ==
            IF frac = 0 THEN ToString(whole)
            ELSE ToString(whole) \o "." \o FractionDigits(frac, 4)
        Magnitude(a) == Digits(a \div 480, ((a % 480) * 10000) \div 480)
    IN  (IF n < 0 THEN "-" ELSE "") \o Magnitude(Abs(n))

\* A plain count (drawer count, index) in a template literal
CountToString(n) == IF n < 0 THEN "-" \o ToString(-n) ELSE ToString(n)

\* Array.prototype.join
RECURSIVE join(_, _)
join(strings, sep) ==
    IF Len(strings) = 0 THEN ""
    ELSE IF Len(strings) = 1 THEN strings[1]
    ELSE strings[1] \o sep \o join(Tail(strings), sep)

\* [...a, ...b, ...] over a sequence of sequences
RECURSIVE Flatten(_)
Flatten(seqs) ==
    IF Len(seqs) = 0 THEN <<>> ELSE Head(seqs) \o Flatten(Tail(seqs))

-----------------------------------------------------------------------------
(* Constants (src/src/lib/types/constants.ts)                              *)

SYSTEM_32 ==
    [HOLE_DIAMETER |-> mm(5), HOLE_SPACING |-> mm(32), FRONT_SETBACK |-> mm(37),
     REAR_SETBACK |-> mm(37), VERTICAL_MARGIN |-> mm(50)]

MATERIAL_THICKNESSES ==
    [STANDARD_18MM |-> mm(18), PLYWOOD_19MM |-> hundredths(1905),
     HALF_INCH |-> tenths(127), QUARTER_INCH |-> hundredths(635),
     HARDBOARD_3MM |-> mm(3), MDF_6MM |-> mm(6)]

DRAWER_DEFAULTS ==
    [SLIDE_CLEARANCE |-> tenths(127), FULL_OVERLAY |-> mm(19),
     HALF_OVERLAY |-> tenths(95), MIN_HEIGHT |-> mm(50)]

DRAWER_PULL_DEFAULTS ==
    [SPACING_96MM |-> mm(96), HOLE_DIAMETER |-> mm(5), VERTICAL_OFFSET |-> mm(32)]

ASSEMBLY_PREDRILL_DEFAULTS ==
    [PILOT_DIAMETER |-> mm(3), COUNTERSINK_DIAMETER |-> mm(8),
     COUNTERSINK_DEPTH |-> mm(4), EDGE_DISTANCE |-> mm(25),
     SCREW_SPACING |-> mm(200)]

SLIDE_HARDWARE_DEFAULTS ==
    [HOLE_DIAMETER |-> mm(4), FRONT_OFFSET |-> mm(37), HOLE_SPACING |-> mm(32),
     HOLES_PER_SLIDE |-> 3]

SHELF_RUNNER_DEFAULTS ==
    [HOLE_DIAMETER |-> mm(4), FRONT_SETBACK |-> mm(50), REAR_SETBACK |-> mm(50),
     HOLES_PER_RUNNER |-> 2]

DADO_DEFAULTS == [MIN_DEPTH |-> mm(6), MAX_DEPTH |-> mm(12)]

TOE_KICK_DEFAULTS == [HEIGHT |-> mm(100), DEPTH |-> mm(75)]

TOLERANCES == [SHELF_CLEARANCE |-> mm(1)]

BACK_PANEL_DEFAULTS == [DADO_DEPTH |-> mm(6), INSET_DISTANCE |-> mm(10)]

BUILDER_VERSION == "0.1.0"

-----------------------------------------------------------------------------
(* Carcass generator (carcass.ts, src/unnamed/part_006)                    *)

\* features.toeKick.enabled ? features.toeKick.height : 0
ToeKickHeight(cfg) ==
    IF cfg.features.toeKick.enabled THEN cfg.features.toeKick.height ELSE 0

RECURSIVE PredrillLoop(_, _, _, _, _, _, _)
PredrillLoop(i, numIntervals, startPos, actualSpacing, edgeDistance, pc, diam) ==
    IF i > numIntervals THEN <<>>
    ELSE
        LET xPos == startPos + i * actualSpacing
            pilotHole == [type |-> "hole", pos |-> <<xPos, edgeDistance>>,
                          diameter |-> diam.pilot, depth |-> 0,
                          purpose |-> "assembly"]
            countersink == [type |-> "countersink", pos |-> <<xPos, edgeDistance>>,
                            pilotDiameter |-> diam.pilot,
                            countersinkDiameter |-> diam.countersink,
                            pilotDepth |-> 0,
                            countersinkDepth |-> Div(diam.countersink, 2),
                            purpose |-> "assembly"]
        IN  (IF pc.countersink THEN <<pilotHole, countersink>> ELSE <<pilotHole>>)
            \o PredrillLoop(i + 1, numIntervals, startPos, actualSpacing,
                            edgeDistance, pc, diam)

generateAssemblyPredrillsForEdge(edgeLength, edgeDistance, pc) ==
    IF ~pc.enabled THEN <<>>
    ELSE
        LET pilotDiameter == OrElse(pc.pilotDiameter, ASSEMBLY_PREDRILL_DEFAULTS.PILOT_DIAMETER)
            countersinkDiameter ==
                OrElse(pc.countersinkDiameter, ASSEMBLY_PREDRILL_DEFAULTS.COUNTERSINK_DIAMETER)
            screwSpacing == OrElse(pc.screwSpacing, ASSEMBLY_PREDRILL_DEFAULTS.SCREW_SPACING)
            edgeOffset == OrElse(pc.edgeDistance, ASSEMBLY_PREDRILL_DEFAULTS.EDGE_DISTANCE)
            startPos == edgeOffset
            endPos == edgeLength - edgeOffset
            availableLength == endPos - startPos
            numIntervals == Max(1, Floor(availableLength, screwSpacing))
            actualSpacing == Div(availableLength, numIntervals)
        IN  PredrillLoop(0, numIntervals, startPos, actualSpacing, edgeDistance, pc,
                         [pilot |-> pilotDiameter, countersink |-> countersinkDiameter])

generateSidePanelAssemblyPredrills(cfg, panelHeight, panelDepth, isLeftPanel) ==
    LET predrills == cfg.predrills.assembly
    IN  IF ~predrills.enabled THEN <<>>
        ELSE
            LET thickness == cfg.material.thickness
                toeKickHeight == ToeKickHeight(cfg)
                bottomEdgeY == toeKickHeight + Div(thickness, 2)
                topEdgeY == panelHeight - Div(thickness, 2)
            IN  \* bottomHoles, then topHoles
                generateAssemblyPredrillsForEdge(panelDepth, bottomEdgeY, predrills)
                \o generateAssemblyPredrillsForEdge(panelDepth, topEdgeY, predrills)

RECURSIVE SlideHoleLoop(_, _, _, _, _, _, _)
SlideHoleLoop(i, holesPerSlide, frontOffset, holeSpacing, panelDepth, slideY, diameter) ==
    IF i >= holesPerSlide THEN <<>>
    ELSE
        LET xPos == frontOffset + i * holeSpacing
        IN  IF xPos > panelDepth - mm(20) THEN <<>>
            ELSE <<[type |-> "hole", pos |-> <<xPos, slideY>>, diameter |-> diameter,
                    depth |-> 0, purpose |-> "slide_mount"]>>
                 \o SlideHoleLoop(i + 1, holesPerSlide, frontOffset, holeSpacing,
                                  panelDepth, slideY, diameter)

generateSlidePredrillsForDrawer(drawerBottomY, panelDepth, sc) ==
    IF ~sc.enabled THEN <<>>
    ELSE
        LET diameter == OrElse(sc.holeDiameter, SLIDE_HARDWARE_DEFAULTS.HOLE_DIAMETER)
            frontOffset == OrElse(sc.frontOffset, SLIDE_HARDWARE_DEFAULTS.FRONT_OFFSET)
            holeSpacing == OrElse(sc.holeSpacing, SLIDE_HARDWARE_DEFAULTS.HOLE_SPACING)
            holesPerSlide == OrElse(sc.holesPerSlide, SLIDE_HARDWARE_DEFAULTS.HOLES_PER_SLIDE)
            slideY == drawerBottomY + OrElse(sc.mountingHeight, 0)
        IN  SlideHoleLoop(0, holesPerSlide, frontOffset, holeSpacing, panelDepth,
                          slideY, diameter)

generateSidePanelSlidePredrills(cfg, panelHeight, panelDepth) ==
    LET slideConfig == cfg.predrills.slides
        drawers == cfg.features.drawers
    IN  IF ~slideConfig.enabled THEN <<>>
        ELSE IF ~drawers.enabled \/ drawers.count <= 0 THEN <<>>
        ELSE
            LET thickness == cfg.material.thickness
                toeKickHeight == ToeKickHeight(cfg)
                drawerCount == drawers.count
                interiorHeight == panelHeight - 2 * thickness - toeKickHeight
                drawerGap == mm(3)
                totalGaps == drawerCount - 1
                heightForDrawers == interiorHeight - totalGaps * drawerGap
                drawerFrontHeight == Div(heightForDrawers, drawerCount)
            IN  Flatten([k \in 1..drawerCount |->
                    generateSlidePredrillsForDrawer(
                        toeKickHeight + thickness + (k - 1) * (drawerFrontHeight + drawerGap),
                        panelDepth, slideConfig)])

generateLeftSidePanel(cfg) ==
    LET w == cfg.globalBounds.w
        h == cfg.globalBounds.h
        d == cfg.globalBounds.d
        thickness == cfg.material.thickness
        toeKick == cfg.features.toeKick
        panelHeight == h
        panelDepth == d
        notch == [type |-> "notch", width |-> toeKick.depth, height |-> toeKick.height,
                  pos |-> <<0, 0>>, corner |-> "bottom-left"]
    IN  [id |-> "side_panel_left", label |-> "Left Side Panel",
         role |-> "side_panel_left",
         dimensions |-> <<thickness, panelHeight, panelDepth>>,
         position |-> <<0, 0, 0>>, rotation |-> <<0, 0, 0>>,
         features |->
             (IF toeKick.enabled THEN <<notch>> ELSE <<>>)
             \o generateSidePanelAssemblyPredrills(cfg, panelHeight, panelDepth, TRUE)
             \o generateSidePanelSlidePredrills(cfg, panelHeight, panelDepth),
         layer |-> "OUTSIDE_CUT",
         materialThickness |-> thickness]

generateRightSidePanel(cfg) ==
    LET w == cfg.globalBounds.w
        h == cfg.globalBounds.h
        d == cfg.globalBounds.d
        thickness == cfg.material.thickness
        toeKick == cfg.features.toeKick
        panelHeight == h
        panelDepth == d
        notch == [type |-> "notch", width |-> toeKick.depth, height |-> toeKick.height,
                  pos |-> <<thickness - toeKick.depth, 0>>, corner |-> "bottom-right"]
        posX == w - thickness
    IN  [id |-> "side_panel_right", label |-> "Right Side Panel",
         role |-> "side_panel_right",
         dimensions |-> <<thickness, panelHeight, panelDepth>>,
         position |-> <<posX, 0, 0>>, rotation |-> <<0, 0, 0>>,
         features |->
             (IF toeKick.enabled THEN <<notch>> ELSE <<>>)
             \o generateSidePanelAssemblyPredrills(cfg, panelHeight, panelDepth, FALSE)
             \o generateSidePanelSlidePredrills(cfg, panelHeight, panelDepth),
         layer |-> "OUTSIDE_CUT",
         materialThickness |-> thickness]

generateTopPanel(cfg) ==
    LET w == cfg.globalBounds.w
        h == cfg.globalBounds.h
        d == cfg.globalBounds.d
        thickness == cfg.material.thickness
        panelWidth == w - 2 * thickness
        panelDepth == d
        posX == thickness
        posY == h - thickness
    IN  [id |-> "top_panel", label |-> "Top Panel", role |-> "top_panel",
         dimensions |-> <<panelWidth, thickness, panelDepth>>,
         position |-> <<posX, posY, 0>>, rotation |-> <<0, 0, 0>>,
         features |-> <<>>, layer |-> "OUTSIDE_CUT",
         materialThickness |-> thickness]

\* generateBottomPanel spanning the full cabinet width
generateBottomPanelFullWidth(cfg) ==
    LET thickness == cfg.material.thickness
        posY == IF cfg.features.toeKick.enabled THEN cfg.features.toeKick.height ELSE 0
    IN  [id |-> "bottom_panel", label |-> "Bottom Panel", role |-> "bottom_panel",
         dimensions |-> <<cfg.globalBounds.w, thickness, cfg.globalBounds.d>>,
         position |-> <<0, posY, 0>>, rotation |-> <<0, 0, 0>>,
         features |-> <<>>, layer |-> "OUTSIDE_CUT",
         materialThickness |-> thickness]

generateBottomPanel(cfg) ==
    LET w == cfg.globalBounds.w
        d == cfg.globalBounds.d
        thickness == cfg.material.thickness
        panelWidth == w - 2 * thickness
        panelDepth == d
        posX == thickness
        posY == IF cfg.features.toeKick.enabled THEN cfg.features.toeKick.height ELSE 0
    IN  [id |-> "bottom_panel", label |-> "Bottom Panel", role |-> "bottom_panel",
         dimensions |-> <<panelWidth, thickness, panelDepth>>,
         position |-> <<posX, posY, 0>>, rotation |-> <<0, 0, 0>>,
         features |-> <<>>, layer |-> "OUTSIDE_CUT",
         materialThickness |-> thickness]

\* calculateInteriorBounds subtracting the toe kick's height enabled or not
calculateInteriorBoundsAlwaysToeKick(cfg) ==
    LET thickness == cfg.material.thickness
    IN  [w |-> cfg.globalBounds.w - 2 * thickness,
         h |-> cfg.globalBounds.h - 2 * thickness - cfg.features.toeKick.height,
         d |-> cfg.globalBounds.d]

calculateInteriorBounds(cfg) ==
    LET thickness == cfg.material.thickness
        interiorWidth == cfg.globalBounds.w - 2 * thickness
        toeKickHeight == ToeKickHeight(cfg)
        interiorHeight == cfg.globalBounds.h - 2 * thickness - toeKickHeight
        interiorDepth == cfg.globalBounds.d
    IN  [w |-> interiorWidth, h |-> interiorHeight, d |-> interiorDepth]

generateCarcass(cfg) ==
    <<generateLeftSidePanel(cfg), generateRightSidePanel(cfg),
      generateTopPanel(cfg), generateBottomPanel(cfg)>>

\* The toe-kick panel generator the builder imports from carcass.ts: one
\* toe_kick_panel across the recess when the toe kick is enabled, else null.
generateToeKickPanel(cfg) ==
    LET thickness == cfg.material.thickness
        toeKick == cfg.features.toeKick
    IN  IF ~toeKick.enabled THEN Null
        ELSE [id |-> "toe_kick_panel", label |-> "Toe Kick Panel",
              role |-> "toe_kick_panel",
              dimensions |-> <<cfg.globalBounds.w - 2 * thickness, toeKick.height, thickness>>,
              position |-> <<thickness, 0, toeKick.depth>>, rotation |-> <<0, 0, 0>>,
              features |-> <<>>, layer |-> "OUTSIDE_CUT",
              materialThickness |-> thickness]

validateCarcassConfig(cfg) ==
    LET w == cfg.globalBounds.w
        h == cfg.globalBounds.h
        d == cfg.globalBounds.d
        thickness == cfg.material.thickness
        interiorWidth == w - 2 * thickness
        toeKickHeight == ToeKickHeight(cfg)
        interiorHeight == h - 2 * thickness - toeKickHeight
    IN  (IF interiorWidth <= 0
         THEN <<"Interior width would be " \o NumberToString(interiorWidth) \o "mm. "
                \o "Material thickness (" \o NumberToString(thickness) \o "mm x 2 = "
                \o NumberToString(thickness * 2) \o "mm) "
                \o "exceeds cabinet width (" \o NumberToString(w) \o "mm).">>
         ELSE <<>>)
        \o (IF interiorHeight <= 0
            THEN <<"Interior height would be " \o NumberToString(interiorHeight) \o "mm. "
                   \o "Combined thickness of top (" \o NumberToString(thickness)
                   \o "mm), bottom (" \o NumberToString(thickness) \o "mm), "
                   \o "and toe kick (" \o NumberToString(toeKickHeight)
                   \o "mm) exceeds cabinet height (" \o NumberToString(h) \o "mm).">>
            ELSE <<>>)
        \o (IF w < mm(100)
            THEN <<"Cabinet width (" \o NumberToString(w) \o "mm) is below minimum of 100mm.">>
            ELSE <<>>)
        \o (IF h < mm(100)
            THEN <<"Cabinet height (" \o NumberToString(h) \o "mm) is below minimum of 100mm.">>
            ELSE <<>>)
        \o (IF d < mm(100)
            THEN <<"Cabinet depth (" \o NumberToString(d) \o "mm) is below minimum of 100mm.">>
            ELSE <<>>)
        \o (IF thickness <= 0
            THEN <<"Material thickness must be positive, got "
                   \o NumberToString(thickness) \o "mm.">>
            ELSE <<>>)
        \o (IF thickness > mm(50)
            THEN <<"Material thickness (" \o NumberToString(thickness)
                   \o "mm) exceeds maximum of 50mm.">>
            ELSE <<>>)

-----------------------------------------------------------------------------
(* Back panel generator (src/src/lib/geometry/backPanel.ts)                *)

\* getBackPanelThickness answering with the carcass material
getBackPanelThicknessOfCarcass(cfg) == cfg.material.thickness

getBackPanelThickness(cfg) ==
    IF cfg.secondaryMaterial.backPanelThickness /= Undefined
    THEN cfg.secondaryMaterial.backPanelThickness[1]
    ELSE cfg.backPanel.thickness

generateAppliedBackPanel(cfg) ==
    LET w == cfg.globalBounds.w
        h == cfg.globalBounds.h
        thickness == getBackPanelThickness(cfg)
        panelWidth == w
        toeKickHeight == ToeKickHeight(cfg)
        panelHeight == h - toeKickHeight
        posY == toeKickHeight
        posZ == cfg.globalBounds.d
    IN  [id |-> "back_panel", label |-> "Back Panel (Applied)", role |-> "back_panel",
         dimensions |-> <<panelWidth, panelHeight, thickness>>,
         position |-> <<0, posY, posZ - thickness>>, rotation |-> <<0, 0, 0>>,
         features |-> <<>>, layer |-> "OUTSIDE_CUT",
         materialThickness |-> thickness]

generateInsetBackPanel(cfg) ==
    LET w == cfg.globalBounds.w
        h == cfg.globalBounds.h
        carcassThickness == cfg.material.thickness
        dadoDepth == OrElse(cfg.backPanel.dadoDepth, BACK_PANEL_DEFAULTS.DADO_DEPTH)
        panelThickness == getBackPanelThickness(cfg)
        panelWidth == w - 2 * carcassThickness + 2 * dadoDepth
        toeKickHeight == ToeKickHeight(cfg)
        panelHeight == h - 2 * carcassThickness - toeKickHeight + 2 * dadoDepth
        insetDistance == OrElse(cfg.backPanel.insetDistance, BACK_PANEL_DEFAULTS.INSET_DISTANCE)
        posX == carcassThickness - dadoDepth
        posY == toeKickHeight + carcassThickness - dadoDepth
        posZ == cfg.globalBounds.d - insetDistance - panelThickness
    IN  [id |-> "back_panel", label |-> "Back Panel (Inset)", role |-> "back_panel",
         dimensions |-> <<panelWidth, panelHeight, panelThickness>>,
         position |-> <<posX, posY, posZ>>, rotation |-> <<0, 0, 0>>,
         features |-> <<>>, layer |-> "OUTSIDE_CUT",
         materialThickness |-> panelThickness]

generateBackPanelDado(cfg, side) ==
    LET dadoDepth == OrElse(cfg.backPanel.dadoDepth, BACK_PANEL_DEFAULTS.DADO_DEPTH)
        insetDistance == OrElse(cfg.backPanel.insetDistance, BACK_PANEL_DEFAULTS.INSET_DISTANCE)
        panelThickness == getBackPanelThickness(cfg)
        toeKickHeight == ToeKickHeight(cfg)
        dadoX == cfg.globalBounds.d - insetDistance - Div(panelThickness, 2)
        startY == toeKickHeight
        endY == cfg.globalBounds.h
    IN  [type |-> "slot", width |-> panelThickness, depth |-> dadoDepth,
         path |-> <<<<dadoX, startY>>, <<dadoX, endY>>>>, purpose |-> "dado"]

generateHorizontalBackPanelDado(cfg, panel) ==
    LET carcassThickness == cfg.material.thickness
        dadoDepth == OrElse(cfg.backPanel.dadoDepth, BACK_PANEL_DEFAULTS.DADO_DEPTH)
        insetDistance == OrElse(cfg.backPanel.insetDistance, BACK_PANEL_DEFAULTS.INSET_DISTANCE)
        panelThickness == getBackPanelThickness(cfg)
        dadoY == cfg.globalBounds.d - insetDistance - Div(panelThickness, 2)
        startX == 0
        endX == cfg.globalBounds.w - 2 * carcassThickness
    IN  [type |-> "slot", width |-> panelThickness, depth |-> dadoDepth,
         path |-> <<<<startX, dadoY>>, <<endX, dadoY>>>>, purpose |-> "dado"]

generateBackPanel(cfg) ==
    CASE cfg.backPanel.type = "applied" -> generateAppliedBackPanel(cfg)
      [] cfg.backPanel.type = "inset" -> generateInsetBackPanel(cfg)
      [] cfg.backPanel.type = "none" -> Null
      [] OTHER -> Null

\* requiresDados true of every configuration that has a back panel
requiresDadosForAnyBackPanel(cfg) == cfg.backPanel.type /= "none"

requiresDados(cfg) == cfg.backPanel.type = "inset"

validateBackPanelConfig(cfg) ==
    LET backPanel == cfg.backPanel
        dadoDepth == OrElse(backPanel.dadoDepth, BACK_PANEL_DEFAULTS.DADO_DEPTH)
        insetDistance == OrElse(backPanel.insetDistance, BACK_PANEL_DEFAULTS.INSET_DISTANCE)
    IN  IF backPanel.type = "none" THEN <<>>
        ELSE
            (IF backPanel.thickness <= 0
             THEN <<"Back panel thickness must be positive, got "
                    \o NumberToString(backPanel.thickness) \o "mm.">>
             ELSE <<>>)
            \o (IF backPanel.type = "inset"
                THEN (IF dadoDepth >= cfg.material.thickness
                      THEN <<"Dado depth (" \o NumberToString(dadoDepth)
                             \o "mm) must be less than material thickness ("
                             \o NumberToString(cfg.material.thickness) \o "mm).">>
                      ELSE <<>>)
                     \o (IF insetDistance < 0
                         THEN <<"Inset distance must be non-negative, got "
                                \o NumberToString(insetDistance) \o "mm.">>
                         ELSE <<>>)
                     \o (IF insetDistance + backPanel.thickness > cfg.globalBounds.d
                         THEN <<"Inset distance (" \o NumberToString(insetDistance)
                                \o "mm) + back panel thickness ("
                                \o NumberToString(backPanel.thickness) \o "mm) "
                                \o "exceeds cabinet depth ("
                                \o NumberToString(cfg.globalBounds.d) \o "mm).">>
                         ELSE <<>>)
                ELSE <<>>)

-----------------------------------------------------------------------------
(* Shelf generator (src/src/lib/geometry/shelves.ts)                       *)

RECURSIVE generateHoleColumnPastEnd(_, _, _)
\* generateHoleColumn testing the end of the range after pushing the hole
generateHoleColumnPastEnd(startY, endY, xPos) ==
    LET spacing == SYSTEM_32.HOLE_SPACING
    IN  <<<<xPos, startY>>>>
        \o (IF startY <= endY
            THEN generateHoleColumnPastEnd(startY + spacing, endY, xPos)
            ELSE <<>>)

RECURSIVE generateHoleColumn(_, _, _)
generateHoleColumn(startY, endY, xPos) ==
    LET spacing == SYSTEM_32.HOLE_SPACING
    IN  IF startY <= endY
        THEN <<<<xPos, startY>>>> \o generateHoleColumn(startY + spacing, endY, xPos)
        ELSE <<>>

getAdjustableConfig(shelves) == shelves.adjustable
getFixedConfig(shelves) == shelves.fixed
getRunnerConfig(shelves) == shelves.runners

\* The hole pushed for one column position
ShelfPinHole(p) ==
    [type |-> "hole", diameter |-> SYSTEM_32.HOLE_DIAMETER, depth |-> mm(10),
     pos |-> <<p[1], p[2]>>, purpose |-> "shelf_pin"]

\* generateSidePanelShelfHoles measuring the right panel's setbacks from the
\* opposite edge
generateSidePanelShelfHolesMirrored(cfg, side) ==
    LET d == cfg.globalBounds.d
        adjustable == getAdjustableConfig(cfg.features.shelves)
        startY == ToeKickHeight(cfg) + cfg.material.thickness + SYSTEM_32.VERTICAL_MARGIN
        endY == cfg.globalBounds.h - cfg.material.thickness - SYSTEM_32.VERTICAL_MARGIN
        frontSetback == OrElse(adjustable.frontSetback, SYSTEM_32.FRONT_SETBACK)
        rearSetback == OrElse(adjustable.rearSetback, SYSTEM_32.REAR_SETBACK)
        frontColumnX == IF side = "left" THEN frontSetback ELSE d - frontSetback
        rearColumnX == IF side = "left" THEN d - rearSetback ELSE rearSetback
        frontHoles == generateHoleColumn(startY, endY, frontColumnX)
        rearHoles == generateHoleColumn(startY, endY, rearColumnX)
    IN  IF ~adjustable.enabled THEN <<>>
        ELSE IF endY <= startY THEN <<>>
        ELSE [k \in 1..Len(frontHoles) |-> ShelfPinHole(frontHoles[k])]
             \o [k \in 1..Len(rearHoles) |-> ShelfPinHole(rearHoles[k])]

generateSidePanelShelfHoles(cfg, side) ==
    LET d == cfg.globalBounds.d
        h == cfg.globalBounds.h
        thickness == cfg.material.thickness
        adjustable == getAdjustableConfig(cfg.features.shelves)
        toeKickHeight == ToeKickHeight(cfg)
        bottomPanelTop == toeKickHeight + thickness
        topPanelBottom == h - thickness
        verticalMargin == SYSTEM_32.VERTICAL_MARGIN
        startY == bottomPanelTop + verticalMargin
        endY == topPanelBottom - verticalMargin
        frontSetback == OrElse(adjustable.frontSetback, SYSTEM_32.FRONT_SETBACK)
        rearSetback == OrElse(adjustable.rearSetback, SYSTEM_32.REAR_SETBACK)
        frontColumnX == frontSetback
        rearColumnX == d - rearSetback
        frontHoles == generateHoleColumn(startY, endY, frontColumnX)
        rearHoles == generateHoleColumn(startY, endY, rearColumnX)
    IN  IF ~adjustable.enabled THEN <<>>
        ELSE IF endY <= startY THEN <<>>
        ELSE [k \in 1..Len(frontHoles) |-> ShelfPinHole(frontHoles[k])]
             \o [k \in 1..Len(rearHoles) |-> ShelfPinHole(rearHoles[k])]

\* the dado generator cutting for the carcass material whatever the shelf is
FixedDadoCarcassThickness(cfg) == cfg.material.thickness

\* The dado generator's shelfThickness: thickness, unless useSecondaryMaterial
\* && secondaryMaterial?.fixedShelfThickness (0 is falsy)
FixedDadoShelfThickness(cfg) ==
    LET fixedConfig == getFixedConfig(cfg.features.shelves)
        secondary == cfg.secondaryMaterial.fixedShelfThickness
    IN  IF fixedConfig.useSecondaryMaterial /\ secondary /= Undefined /\ secondary[1] /= 0
        THEN secondary[1]
        ELSE cfg.material.thickness

generateSidePanelFixedShelfDados(cfg, side) ==
    LET d == cfg.globalBounds.d
        thickness == cfg.material.thickness
        fixedConfig == getFixedConfig(cfg.features.shelves)
        shelfThickness == FixedDadoShelfThickness(cfg)
        dadoDepth == OrElse(fixedConfig.dadoDepth, DADO_DEFAULTS.MIN_DEPTH)
        toeKickHeight == ToeKickHeight(cfg)
        frontOffset == mm(10)
        rearOffset == mm(10)
    IN  IF ~fixedConfig.enabled \/ Len(fixedConfig.positions) = 0 THEN <<>>
        ELSE [k \in 1..Len(fixedConfig.positions) |->
                LET dadoY == toeKickHeight + thickness + fixedConfig.positions[k]
                IN  [type |-> "slot", width |-> shelfThickness, depth |-> dadoDepth,
                     path |-> <<<<frontOffset, dadoY>>, <<d - rearOffset, dadoY>>>>,
                     purpose |-> "dado"]]

generateSidePanelRunnerHoles(cfg, side) ==
    LET d == cfg.globalBounds.d
        thickness == cfg.material.thickness
        runnerConfig == getRunnerConfig(cfg.features.shelves)
        toeKickHeight == ToeKickHeight(cfg)
        frontSetback == OrElse(runnerConfig.frontSetback, SHELF_RUNNER_DEFAULTS.FRONT_SETBACK)
        rearSetback == OrElse(runnerConfig.rearSetback, SHELF_RUNNER_DEFAULTS.REAR_SETBACK)
        holeDiameter == OrElse(runnerConfig.holeDiameter, SHELF_RUNNER_DEFAULTS.HOLE_DIAMETER)
        holesPerRunner == OrElse(runnerConfig.holesPerRunner, SHELF_RUNNER_DEFAULTS.HOLES_PER_RUNNER)
        runnerLength == d - frontSetback - rearSetback
        \* runnerLength / (holesPerRunner - 1): a division by zero when
        \* holesPerRunner is 1, which in the source gives Infinity and, times
        \* i = 0, NaN
        holeSpacing == IF holesPerRunner = 1 THEN [isInfinity |-> TRUE]
                       ELSE Div(runnerLength, holesPerRunner - 1)
        holeX(i) == IF holesPerRunner = 1 THEN [isNaN |-> TRUE]
                    ELSE frontSetback + i * holeSpacing
    IN  IF ~runnerConfig.enabled \/ Len(runnerConfig.positions) = 0 THEN <<>>
        ELSE Flatten([k \in 1..Len(runnerConfig.positions) |->
                LET runnerY == toeKickHeight + thickness + runnerConfig.positions[k]
                IN  [j \in 1..holesPerRunner |->
                        [type |-> "hole", pos |-> <<holeX(j - 1), runnerY>>,
                         diameter |-> holeDiameter, depth |-> 0,
                         purpose |-> "shelf_runner"]]])

generateAdjustableShelves(cfg) ==
    LET d == cfg.globalBounds.d
        thickness == cfg.material.thickness
        backPanel == cfg.backPanel
        adjustable == getAdjustableConfig(cfg.features.shelves)
        interior == calculateInteriorBounds(cfg)
        shelfWidth == interior.w - TOLERANCES.SHELF_CLEARANCE
        frontSetback == OrElse(adjustable.frontSetback, SYSTEM_32.FRONT_SETBACK)
        shelfDepth ==
            IF backPanel.type = "inset"
            THEN d - frontSetback - OrElse(backPanel.insetDistance, mm(10))
                 - backPanel.thickness - mm(5)
            ELSE d - frontSetback - mm(10)
        toeKickHeight == ToeKickHeight(cfg)
        bottomPanelTop == toeKickHeight + thickness
        topPanelBottom == cfg.globalBounds.h - thickness
        availableHeight == topPanelBottom - bottomPanelTop
        shelfCount == adjustable.count
        spacing == Div(availableHeight, shelfCount + 1)
    IN  IF ~adjustable.enabled \/ adjustable.count <= 0 THEN <<>>
        ELSE [k \in 1..shelfCount |->
                [id |-> "adjustable_shelf_" \o ToString(k),
                 label |-> "Adjustable Shelf " \o ToString(k),
                 role |-> "adjustable_shelf",
                 dimensions |-> <<shelfWidth, thickness, shelfDepth>>,
                 position |-> <<thickness + Div(TOLERANCES.SHELF_CLEARANCE, 2),
                                bottomPanelTop + spacing * k, frontSetback>>,
                 rotation |-> <<0, 0, 0>>, features |-> <<>>,
                 layer |-> "OUTSIDE_CUT", materialThickness |-> thickness]]

generateFixedShelves(cfg) ==
    LET d == cfg.globalBounds.d
        thickness == cfg.material.thickness
        backPanel == cfg.backPanel
        fixedConfig == getFixedConfig(cfg.features.shelves)
        interior == calculateInteriorBounds(cfg)
        secondary == cfg.secondaryMaterial.fixedShelfThickness
        shelfThickness ==
            IF fixedConfig.useSecondaryMaterial /\ secondary /= Undefined /\ secondary[1] /= 0
            THEN secondary[1]
            ELSE thickness
        dadoDepth == OrElse(fixedConfig.dadoDepth, DADO_DEFAULTS.MIN_DEPTH)
        shelfWidth == interior.w + 2 * dadoDepth
        frontOffset == mm(10)
        shelfDepth ==
            IF backPanel.type = "inset"
            THEN d - frontOffset - OrElse(backPanel.insetDistance, mm(10))
                 - backPanel.thickness - mm(5)
            ELSE d - frontOffset - mm(10)
        toeKickHeight == ToeKickHeight(cfg)
    IN  IF ~fixedConfig.enabled \/ Len(fixedConfig.positions) = 0 THEN <<>>
        ELSE [k \in 1..Len(fixedConfig.positions) |->
                LET posY == toeKickHeight + thickness + fixedConfig.positions[k]
                    posX == thickness - dadoDepth
                IN  [id |-> "fixed_shelf_" \o ToString(k),
                     label |-> "Fixed Shelf " \o ToString(k),
                     role |-> "fixed_shelf",
                     dimensions |-> <<shelfWidth, shelfThickness, shelfDepth>>,
                     position |-> <<posX, posY, frontOffset>>,
                     rotation |-> <<0, 0, 0>>, features |-> <<>>,
                     layer |-> "OUTSIDE_CUT", materialThickness |-> shelfThickness]]

generateShelves(cfg) == generateAdjustableShelves(cfg) \o generateFixedShelves(cfg)


RECURSIVE PositionErrors(_, _, _, _)
\* the loop over positions in validateShelfConfig; what is "Fixed shelf" or
\* "Shelf runner"
PositionErrors(what, positions, i, interiorHeight) ==
    IF i > Len(positions) THEN <<>>
    ELSE
        LET pos == positions[i]
        IN  (IF pos < 0
             THEN <<what \o " position " \o ToString(i) \o " ("
                    \o NumberToString(pos) \o "mm) must be non-negative.">>
             ELSE <<>>)
            \o (IF pos > interiorHeight
                THEN <<what \o " position " \o ToString(i) \o " ("
                       \o NumberToString(pos) \o "mm) exceeds interior height ("
                       \o NumberToString(interiorHeight) \o "mm).">>
                ELSE <<>>)
            \o PositionErrors(what, positions, i + 1, interiorHeight)

validateShelfConfig(cfg) ==
    LET h == cfg.globalBounds.h
        d == cfg.globalBounds.d
        thickness == cfg.material.thickness
        adjustable == getAdjustableConfig(cfg.features.shelves)
        fixedConfig == getFixedConfig(cfg.features.shelves)
        runnerConfig == getRunnerConfig(cfg.features.shelves)
        frontSetback == OrElse(adjustable.frontSetback, SYSTEM_32.FRONT_SETBACK)
        rearSetback == OrElse(adjustable.rearSetback, SYSTEM_32.REAR_SETBACK)
        toeKickHeight == ToeKickHeight(cfg)
        bottomPanelTop == toeKickHeight + thickness
        topPanelBottom == h - thickness
        verticalSpace == topPanelBottom - bottomPanelTop - 2 * SYSTEM_32.VERTICAL_MARGIN
        interiorHeight == h - 2 * thickness - toeKickHeight
        dadoDepth == OrElse(fixedConfig.dadoDepth, DADO_DEFAULTS.MIN_DEPTH)
    IN  (IF adjustable.enabled
         THEN (IF frontSetback < 0
               THEN <<"Front setback must be non-negative, got "
                      \o NumberToString(frontSetback) \o "mm.">>
               ELSE <<>>)
              \o (IF rearSetback < 0
                  THEN <<"Rear setback must be non-negative, got "
                         \o NumberToString(rearSetback) \o "mm.">>
                  ELSE <<>>)
              \o (IF frontSetback + rearSetback >= d
                  THEN <<"Combined setbacks (" \o NumberToString(frontSetback + rearSetback)
                         \o "mm) " \o "exceed cabinet depth (" \o NumberToString(d) \o "mm).">>
                  ELSE <<>>)
              \o (IF verticalSpace < SYSTEM_32.HOLE_SPACING
                  THEN <<"Not enough vertical space (" \o NumberToString(verticalSpace)
                         \o "mm) for shelf pin holes. " \o "Need at least "
                         \o NumberToString(SYSTEM_32.HOLE_SPACING) \o "mm.">>
                  ELSE <<>>)
              \o (IF adjustable.count < 0
                  THEN <<"Adjustable shelf count must be non-negative.">>
                  ELSE <<>>)
         ELSE <<>>)
        \o (IF fixedConfig.enabled
            THEN PositionErrors("Fixed shelf", fixedConfig.positions, 1, interiorHeight)
                 \o (IF dadoDepth > Div(thickness, 2)
                     THEN <<"Dado depth (" \o NumberToString(dadoDepth)
                            \o "mm) should not exceed half of material thickness ("
                            \o NumberToString(Div(thickness, 2)) \o "mm).">>
                     ELSE <<>>)
            ELSE <<>>)
        \o (IF runnerConfig.enabled
            THEN PositionErrors("Shelf runner", runnerConfig.positions, 1, interiorHeight)
            ELSE <<>>)

-----------------------------------------------------------------------------
(* Drawer generator (drawers.ts, src/unnamed/part_005)                     *)

DRAWER_BOX_THICKNESS == MATERIAL_THICKNESSES.HALF_INCH
DEFAULT_DRAWER_BOTTOM_THICKNESS == MATERIAL_THICKNESSES.QUARTER_INCH
DRAWER_BOTTOM_DADO_DEPTH == mm(6)
DRAWER_BOTTOM_DADO_OFFSET == mm(12)

\* horizontalPosition: 'center' | number -- <<>> is 'center', <<n>> the offset n
Center == <<>>

getDrawerBottomThickness(cfg) ==
    OrElse(cfg.secondaryMaterial.drawerBottomThickness, DEFAULT_DRAWER_BOTTOM_THICKNESS)

calculateDrawerDimensions(cfg, drawerIndex, totalDrawers) ==
    LET slideWidth == cfg.features.drawers.slideWidth
        overlayAmount == cfg.features.drawers.overlayAmount
        boxDepth ==
            IF cfg.backPanel.type = "inset"
            THEN cfg.globalBounds.d - OrElse(cfg.backPanel.insetDistance, mm(10))
                 - cfg.backPanel.thickness - mm(20)
            ELSE cfg.globalBounds.d - mm(50)
        drawerGap == mm(3)
        totalGaps == totalDrawers - 1
        \* const interior = calculateInteriorBounds(config)
        Dimensions(interior) ==
            LET boxExteriorWidth == interior.w - 2 * slideWidth
                availableHeight == interior.h
                heightForDrawers == availableHeight - totalGaps * drawerGap
                drawerFrontHeight == Div(heightForDrawers, totalDrawers)
            IN  [boxInteriorWidth |-> boxExteriorWidth - 2 * DRAWER_BOX_THICKNESS,
                 boxExteriorWidth |-> boxExteriorWidth,
                 boxHeight |-> Max(drawerFrontHeight - mm(25), DRAWER_DEFAULTS.MIN_HEIGHT),
                 boxDepth |-> boxDepth,
                 frontWidth |-> interior.w + 2 * overlayAmount,
                 frontHeight |-> drawerFrontHeight]
    IN  Dimensions(calculateInteriorBounds(cfg))

generateDrawerPullHoles(frontWidth, frontHeight, pullConfig) ==
    LET diameter == OrElse(pullConfig.holeDiameter, DRAWER_PULL_DEFAULTS.HOLE_DIAMETER)
        verticalOffset == OrElse(pullConfig.verticalOffset, DRAWER_PULL_DEFAULTS.VERTICAL_OFFSET)
        holeY == frontHeight - verticalOffset
        centerX == IF pullConfig.horizontalPosition = Center
                   THEN Div(frontWidth, 2)
                   ELSE Div(frontWidth, 2) + pullConfig.horizontalPosition[1]
        spacing == OrElse(pullConfig.holeSpacing, DRAWER_PULL_DEFAULTS.SPACING_96MM)
        halfSpacing == Div(spacing, 2)
        hole(x) == [type |-> "hole", pos |-> <<x, holeY>>, diameter |-> diameter,
                    depth |-> 0, purpose |-> "drawer_pull"]
    IN  CASE pullConfig.type = "none" -> <<>>
          [] pullConfig.type = "single" -> <<hole(centerX)>>
          [] pullConfig.type = "double" ->
                <<hole(centerX - halfSpacing), hole(centerX + halfSpacing)>>
          [] OTHER -> <<>>

\* The Y of the bottom of drawer drawerIndex's box, as computed (three times
\* over) by generateDrawerSides, generateDrawerBack and generateDrawerBottom
BoxPosY(cfg, drawerIndex, dims) ==
    ToeKickHeight(cfg) + cfg.material.thickness
    + drawerIndex * (dims.frontHeight + mm(3))
    + Div(dims.frontHeight - dims.boxHeight, 2)

generateDrawerFront(cfg, drawerIndex, totalDrawers) ==
    LET material == cfg.material
        drawers == cfg.features.drawers
        toeKickHeight == ToeKickHeight(cfg)
        drawerGap == mm(3)
        overlayAmount == drawers.overlayAmount
        posX == material.thickness - overlayAmount
        \* const dims = calculateDrawerDimensions(config, drawerIndex, totalDrawers)
        Front(dims) ==
            [id |-> "drawer_front_" \o ToString(drawerIndex + 1),
             label |-> "Drawer Front " \o ToString(drawerIndex + 1),
             role |-> "drawer_front",
             dimensions |-> <<dims.frontWidth, dims.frontHeight, material.thickness>>,
             position |-> <<posX,
                            toeKickHeight + material.thickness
                            + drawerIndex * (dims.frontHeight + drawerGap)
                            - overlayAmount,
                            0>>,
             rotation |-> <<0, 0, 0>>,
             features |-> IF drawers.pullHoles /= Undefined
                          THEN generateDrawerPullHoles(dims.frontWidth, dims.frontHeight,
                                                       drawers.pullHoles[1])
                          ELSE <<>>,
             layer |-> "OUTSIDE_CUT",
             materialThickness |-> material.thickness]
    IN  Front(calculateDrawerDimensions(cfg, drawerIndex, totalDrawers))

generateDrawerSides(cfg, drawerIndex, totalDrawers) ==
    LET material == cfg.material
        slideWidth == cfg.features.drawers.slideWidth
        \* dims = calculateDrawerDimensions(...), boxPosY as in BoxPosY,
        \* drawerBottomThickness = getDrawerBottomThickness(config)
        Sides(dims, boxPosY, drawerBottomThickness) ==
            <<\* leftSide
              [id |-> "drawer_side_left_" \o ToString(drawerIndex + 1),
               label |-> "Drawer " \o ToString(drawerIndex + 1) \o " Left Side",
               role |-> "drawer_side",
               dimensions |-> <<DRAWER_BOX_THICKNESS, dims.boxHeight, dims.boxDepth>>,
               position |-> <<material.thickness + slideWidth, boxPosY, 0>>,
               rotation |-> <<0, 0, 0>>,
               features |-> <<[type |-> "slot", width |-> drawerBottomThickness,
                               depth |-> DRAWER_BOTTOM_DADO_DEPTH,
                               path |-> <<<<DRAWER_BOX_THICKNESS,
                                            DRAWER_BOTTOM_DADO_OFFSET>>,
                                          <<dims.boxDepth - DRAWER_BOX_THICKNESS,
                                            DRAWER_BOTTOM_DADO_OFFSET>>>>,
                               purpose |-> "drawer_bottom"]>>,
               layer |-> "OUTSIDE_CUT", materialThickness |-> DRAWER_BOX_THICKNESS],
              \* rightSide
              [id |-> "drawer_side_right_" \o ToString(drawerIndex + 1),
               label |-> "Drawer " \o ToString(drawerIndex + 1) \o " Right Side",
               role |-> "drawer_side",
               dimensions |-> <<DRAWER_BOX_THICKNESS, dims.boxHeight, dims.boxDepth>>,
               position |-> <<material.thickness + slideWidth + dims.boxExteriorWidth
                                - DRAWER_BOX_THICKNESS, boxPosY, 0>>,
               rotation |-> <<0, 0, 0>>,
               features |-> <<[type |-> "slot", width |-> drawerBottomThickness,
                               depth |-> DRAWER_BOTTOM_DADO_DEPTH,
                               path |-> <<<<DRAWER_BOX_THICKNESS,
                                            DRAWER_BOTTOM_DADO_OFFSET>>,
                                          <<dims.boxDepth - DRAWER_BOX_THICKNESS,
                                            DRAWER_BOTTOM_DADO_OFFSET>>>>,
                               purpose |-> "drawer_bottom"]>>,
               layer |-> "OUTSIDE_CUT", materialThickness |-> DRAWER_BOX_THICKNESS]>>
        WithDims(dims) ==
            Sides(dims, BoxPosY(cfg, drawerIndex, dims), getDrawerBottomThickness(cfg))
    IN  WithDims(calculateDrawerDimensions(cfg, drawerIndex, totalDrawers))

generateDrawerBack(cfg, drawerIndex, totalDrawers) ==
    LET material == cfg.material
        slideWidth == cfg.features.drawers.slideWidth
        \* dims = calculateDrawerDimensions(...), boxPosY as in BoxPosY
        Back(dims, boxPosY) ==
            [id |-> "drawer_back_" \o ToString(drawerIndex + 1),
             label |-> "Drawer " \o ToString(drawerIndex + 1) \o " Back",
             role |-> "drawer_back",
             dimensions |-> <<dims.boxInteriorWidth,
                              \* backHeight
                              dims.boxHeight - DRAWER_BOTTOM_DADO_OFFSET
                              - DRAWER_BOTTOM_DADO_DEPTH,
                              DRAWER_BOX_THICKNESS>>,
             position |-> <<material.thickness + slideWidth + DRAWER_BOX_THICKNESS,
                            boxPosY + DRAWER_BOTTOM_DADO_OFFSET + DRAWER_BOTTOM_DADO_DEPTH,
                            dims.boxDepth - DRAWER_BOX_THICKNESS>>,
             rotation |-> <<0, 0, 0>>, features |-> <<>>,
             layer |-> "OUTSIDE_CUT", materialThickness |-> DRAWER_BOX_THICKNESS]
        WithDims(dims) == Back(dims, BoxPosY(cfg, drawerIndex, dims))
    IN  WithDims(calculateDrawerDimensions(cfg, drawerIndex, totalDrawers))

generateDrawerBottom(cfg, drawerIndex, totalDrawers) ==
    LET material == cfg.material
        slideWidth == cfg.features.drawers.slideWidth
        \* dims = calculateDrawerDimensions(...), boxPosY as in BoxPosY,
        \* drawerBottomThickness = getDrawerBottomThickness(config)
        Bottom(dims, boxPosY, drawerBottomThickness) ==
            [id |-> "drawer_bottom_" \o ToString(drawerIndex + 1),
             label |-> "Drawer " \o ToString(drawerIndex + 1) \o " Bottom",
             role |-> "drawer_bottom",
             dimensions |-> <<\* bottomWidth
                              dims.boxInteriorWidth + 2 * DRAWER_BOTTOM_DADO_DEPTH,
                              drawerBottomThickness,
                              \* bottomDepth
                              dims.boxDepth - 2 * DRAWER_BOX_THICKNESS
                              + 2 * DRAWER_BOTTOM_DADO_DEPTH>>,
             position |-> <<material.thickness + slideWidth + DRAWER_BOX_THICKNESS
                              - DRAWER_BOTTOM_DADO_DEPTH,
                            boxPosY + DRAWER_BOTTOM_DADO_OFFSET,
                            DRAWER_BOX_THICKNESS - DRAWER_BOTTOM_DADO_DEPTH>>,
             rotation |-> <<0, 0, 0>>, features |-> <<>>,
             layer |-> "OUTSIDE_CUT", materialThickness |-> drawerBottomThickness]
        WithDims(dims) ==
            Bottom(dims, BoxPosY(cfg, drawerIndex, dims), getDrawerBottomThickness(cfg))
    IN  WithDims(calculateDrawerDimensions(cfg, drawerIndex, totalDrawers))

generateDrawer(cfg, drawerIndex, totalDrawers) ==
    <<generateDrawerFront(cfg, drawerIndex, totalDrawers)>>
    \o generateDrawerSides(cfg, drawerIndex, totalDrawers)
    \o <<generateDrawerBack(cfg, drawerIndex, totalDrawers),
         generateDrawerBottom(cfg, drawerIndex, totalDrawers)>>

generateDrawers(cfg) ==
    LET drawers == cfg.features.drawers
    IN  IF ~drawers.enabled \/ drawers.count <= 0 THEN <<>>
        ELSE Flatten([k \in 1..drawers.count |-> generateDrawer(cfg, k - 1, drawers.count)])

validateDrawerConfig(cfg) ==
    LET drawers == cfg.features.drawers
        \* boxWidth = interior.w - 2 * slideWidth, with
        \* interior = calculateInteriorBounds(config);
        \* dims = calculateDrawerDimensions(config, 0, drawers.count), read
        \* only when drawers.count > 0
        Errors(boxWidth, dims) ==
            (IF drawers.slideWidth < 0
             THEN <<"Slide width must be non-negative, got "
                    \o NumberToString(drawers.slideWidth) \o "mm.">>
             ELSE <<>>)
            \o (IF boxWidth < mm(100)
                THEN <<"Drawer box width (" \o NumberToString(boxWidth)
                       \o "mm) is too small after slide clearance. "
                       \o "Need at least 100mm.">>
                ELSE <<>>)
            \o (IF drawers.count < 0
                THEN <<"Drawer count must be non-negative, got "
                       \o CountToString(drawers.count) \o ".">>
                ELSE <<>>)
            \o (IF drawers.count > 0 /\ dims.boxHeight < DRAWER_DEFAULTS.MIN_HEIGHT
                THEN <<"Drawer height (" \o NumberToString(dims.boxHeight)
                       \o "mm) is below minimum of "
                       \o NumberToString(DRAWER_DEFAULTS.MIN_HEIGHT) \o "mm. "
                       \o "Reduce drawer count or increase cabinet height.">>
                ELSE <<>>)
    IN  IF ~drawers.enabled THEN <<>>
        ELSE Errors(calculateInteriorBounds(cfg).w - 2 * drawers.slideWidth,
                    calculateDrawerDimensions(cfg, 0, drawers.count))

-----------------------------------------------------------------------------
(* Assembly builder (src/src/lib/geometry/assembly.ts)                     *)
\* validateConfig reporting the shelves-with-drawers conflict as an error
validateConfigConflictIsError(cfg) ==
    LET conflict ==
            IF cfg.features.shelves.adjustable.enabled /\ cfg.features.drawers.enabled
            THEN <<"Both shelves and drawers are enabled. "
                   \o "Shelf pin holes will be generated but may interfere with drawer slides.">>
            ELSE <<>>
        Result(errors) ==
            [valid |-> Len(errors) = 0, errors |-> errors, warnings |-> <<>>]
    IN  Result(validateCarcassConfig(cfg)
               \o validateBackPanelConfig(cfg)
               \o validateShelfConfig(cfg)
               \o validateDrawerConfig(cfg)
               \o conflict)


validateConfig(cfg) ==
    LET shelvesEnabled == cfg.features.shelves.adjustable.enabled
        warnings ==
            IF shelvesEnabled /\ cfg.features.drawers.enabled
            THEN <<"Both shelves and drawers are enabled. "
                   \o "Shelf pin holes will be generated but may interfere with drawer slides.">>
            ELSE <<>>
        Result(errors) ==
            [valid |-> Len(errors) = 0, errors |-> errors, warnings |-> warnings]
    IN  Result(validateCarcassConfig(cfg)
               \o validateBackPanelConfig(cfg)
               \o validateShelfConfig(cfg)
               \o validateDrawerConfig(cfg))

\* { ...panel, features: [...panel.features, ...added] }
\* the added features put in front of the panel's own
WithFeaturesInFront(panel, added) == [panel EXCEPT !.features = added \o panel.features]

WithFeatures(panel, added) == [panel EXCEPT !.features = panel.features \o added]

generateCarcassWithFeatures(cfg) ==
    LET shelfConfig == cfg.features.shelves
        adjustableEnabled == shelfConfig.adjustable.enabled
        runnerConfig == shelfConfig.runners
        fixedConfig == shelfConfig.fixed
        runnersEnabled == runnerConfig.enabled /\ Len(runnerConfig.positions) > 0
        fixedEnabled == fixedConfig.enabled /\ Len(fixedConfig.positions) > 0
        \* basicCarcass.find((c) => c.role === ...)
        find(basicCarcass, role) ==
            basicCarcass[CHOOSE k \in 1..Len(basicCarcass) :
                            /\ basicCarcass[k].role = role
                            /\ \A j \in 1..(k - 1) : basicCarcass[j].role /= role]
        TopAndBottom(basicCarcass) ==
            <<find(basicCarcass, "top_panel"), find(basicCarcass, "bottom_panel")>>
        Carcass(leftPanel, rightPanel, topBottom, topDado, bottomDado) ==
            IF requiresDados(cfg)
            THEN <<leftPanel, rightPanel,
                   WithFeatures(topBottom[1], <<topDado>>),
                   WithFeatures(topBottom[2], <<bottomDado>>)>>
            ELSE <<leftPanel, rightPanel, topBottom[1], topBottom[2]>>
    IN  Carcass(
            \* leftPanel: [...features, ...leftShelfHoles, ...leftRunnerHoles,
            \*             ...leftFixedDados, ...leftBackDado]
            WithFeatures(generateLeftSidePanel(cfg),
                (IF adjustableEnabled
                 THEN generateSidePanelShelfHoles(cfg, "left") ELSE <<>>)
                \o (IF runnersEnabled
                    THEN generateSidePanelRunnerHoles(cfg, "left") ELSE <<>>)
                \o (IF fixedEnabled
                    THEN generateSidePanelFixedShelfDados(cfg, "left") ELSE <<>>)
                \o (IF requiresDados(cfg)
                    THEN <<generateBackPanelDado(cfg, "left")>> ELSE <<>>)),
            \* rightPanel
            WithFeatures(generateRightSidePanel(cfg),
                (IF adjustableEnabled
                 THEN generateSidePanelShelfHoles(cfg, "right") ELSE <<>>)
                \o (IF runnersEnabled
                    THEN generateSidePanelRunnerHoles(cfg, "right") ELSE <<>>)
                \o (IF fixedEnabled
                    THEN generateSidePanelFixedShelfDados(cfg, "right") ELSE <<>>)
                \o (IF requiresDados(cfg)
                    THEN <<generateBackPanelDado(cfg, "right")>> ELSE <<>>)),
            TopAndBottom(generateCarcass(cfg)),
            generateHorizontalBackPanelDado(cfg, "top"),
            generateHorizontalBackPanelDado(cfg, "bottom"))

\* component ? [component] : []
IfPresent(component) == IF component = Null THEN <<>> ELSE <<component>>

\* The body of buildAssembly after the validation gate.  called lists the
\* generators in the order they were invoked.
BuildComponents(cfg, now) ==
    [threw |-> FALSE,
     message |-> "",
     called |-> <<"generateCarcassWithFeatures", "generateBackPanel",
                  "generateToeKickPanel", "generateShelves", "generateDrawers",
                  "calculateInteriorBounds">>,
     assembly |-> [config |-> cfg,
                   components |-> generateCarcassWithFeatures(cfg)
                                  \o IfPresent(generateBackPanel(cfg))
                                  \o IfPresent(generateToeKickPanel(cfg))
                                  \o generateShelves(cfg)
                                  \o generateDrawers(cfg),
                   interiorBounds |-> calculateInteriorBounds(cfg),
                   metadata |-> [generatedAt |-> now, version |-> BUILDER_VERSION]]]

\* buildAssembly without its validation gate
buildAssemblyUngated(cfg, now) == BuildComponents(cfg, now)

\* buildAssembly throwing the first validation error only
buildAssemblyFirstError(cfg, now) ==
    LET Gate(validation, built) ==
            IF ~validation.valid
            THEN [threw |-> TRUE,
                  message |-> "Invalid assembly configuration:\n"
                              \o validation.errors[1],
                  called |-> <<>>,
                  assembly |-> Null]
            ELSE built
    IN  Gate(validateConfig(cfg), BuildComponents(cfg, now))

\* buildAssembly naming every component after the moment it was generated
buildAssemblyStamped(cfg, now) ==
    LET Stamp(c) == [c EXCEPT !.id = c.id \o "_" \o CountToString(now)]
        Stamped(components) == [i \in DOMAIN components |-> Stamp(components[i])]
        Gate(validation, built) ==
            IF ~validation.valid
            THEN [threw |-> TRUE,
                  message |-> "Invalid assembly configuration:\n"
                              \o join(validation.errors, "\n"),
                  called |-> <<>>,
                  assembly |-> Null]
            ELSE [built EXCEPT !.assembly.components = Stamped(built.assembly.components)]
    IN  Gate(validateConfig(cfg), BuildComponents(cfg, now))

\* buildAssembly pushing the shelves before the back panel and the toe kick
\* panel
buildAssemblyShelvesFirst(cfg, now) ==
    LET Reordered(a) ==
            [a EXCEPT !.components =
                generateCarcassWithFeatures(cfg)
                \o generateShelves(cfg)
                \o IfPresent(generateBackPanel(cfg))
                \o IfPresent(generateToeKickPanel(cfg))
                \o generateDrawers(cfg)]
        Gate(validation, built) ==
            IF ~validation.valid
            THEN [threw |-> TRUE,
                  message |-> "Invalid assembly configuration:\n"
                              \o join(validation.errors, "\n"),
                  called |-> <<>>,
                  assembly |-> Null]
            ELSE [built EXCEPT !.assembly = Reordered(built.assembly)]
    IN  Gate(validateConfig(cfg), BuildComponents(cfg, now))

\* buildAssembly(config), called when the clock reads now.  The outcome is
\* either a thrown Error (threw, with its message; no assembly) or the
\* returned Assembly.  Gate is the validation gate: built, the work of the
\* generators, is looked at only when the validation passed.
buildAssembly(cfg, now) ==
    LET Gate(validation, built) ==
            IF ~validation.valid
            THEN [threw |-> TRUE,
                  message |-> "Invalid assembly configuration:\n"
                              \o join(validation.errors, "\n"),
                  called |-> <<>>,
                  assembly |-> Null]
            ELSE built
    IN  Gate(validateConfig(cfg), BuildComponents(cfg, now))

-----------------------------------------------------------------------------
(* useAssembly hook (src/src/hooks/useAssembly.ts)                         *)

\* The useMemo body: validate, build when valid, catch a thrown build
UseAssemblyMemo(cfg, now) ==
    LET \* built is the outcome of buildAssembly(config), looked at only when
        \* the validation passed
        Memo(validation, built) ==
            IF validation.valid
            THEN IF built.threw
                 THEN [assembly |-> Null,
                       validation |->
                           [valid |-> FALSE,
                            errors |-> Append(validation.errors, built.message),
                            warnings |-> validation.warnings]]
                 ELSE [assembly |-> built.assembly, validation |-> validation]
            ELSE [assembly |-> Null, validation |-> validation]
    IN  Memo(validateConfig(cfg), buildAssembly(cfg, now))

\* { ...a, ...b }
Spread(a, b) ==
    [k \in (DOMAIN a) \cup (DOMAIN b) |-> IF k \in DOMAIN b THEN b[k] ELSE a[k]]

\* updates.group || {}
Group(updates, name) == IF name \in DOMAIN updates THEN updates[name] ELSE <<>>

\* the merge done by updateConfig's state updater
MergeConfig(prev, updates) ==
    LET f == Group(updates, "features")
    IN  [Spread(prev, updates) EXCEPT
            !.globalBounds = Spread(prev.globalBounds, Group(updates, "globalBounds")),
            !.material = Spread(prev.material, Group(updates, "material")),
            !.machining = Spread(prev.machining, Group(updates, "machining")),
            !.backPanel = Spread(prev.backPanel, Group(updates, "backPanel")),
            !.features =
                [shelves |-> Spread(prev.features.shelves, Group(f, "shelves")),
                 drawers |-> Spread(prev.features.drawers, Group(f, "drawers")),
                 toeKick |-> Spread(prev.features.toeKick, Group(f, "toeKick"))]]

-----------------------------------------------------------------------------
(* Default configuration (src/src/lib/types/constants.ts)                  *)

DEFAULT_MATERIAL == [thickness |-> MATERIAL_THICKNESSES.STANDARD_18MM]

DEFAULT_SECONDARY_MATERIAL ==
    [backPanelThickness |-> Some(MATERIAL_THICKNESSES.MDF_6MM),
     drawerBottomThickness |-> Some(MATERIAL_THICKNESSES.MDF_6MM),
     fixedShelfThickness |-> Undefined]

DEFAULT_MACHINING == [bitDiameter |-> hundredths(635), compensation |-> "outside"]

DEFAULT_BACK_PANEL ==
    [type |-> "applied",
     thickness |-> MATERIAL_THICKNESSES.MDF_6MM,
     dadoDepth |-> Some(BACK_PANEL_DEFAULTS.DADO_DEPTH),
     insetDistance |-> Some(BACK_PANEL_DEFAULTS.INSET_DISTANCE)]

DEFAULT_ADJUSTABLE_SHELVES ==
    [enabled |-> TRUE, count |-> 2,
     frontSetback |-> Some(SYSTEM_32.FRONT_SETBACK),
     rearSetback |-> Some(SYSTEM_32.REAR_SETBACK)]

DEFAULT_FIXED_SHELVES ==
    [enabled |-> FALSE, positions |-> <<>>,
     dadoDepth |-> Some(DADO_DEFAULTS.MIN_DEPTH),
     useSecondaryMaterial |-> FALSE]

\* positions is absent from the default; it is read only when enabled
DEFAULT_SHELF_RUNNERS ==
    [enabled |-> FALSE, positions |-> <<>>,
     frontSetback |-> Some(SHELF_RUNNER_DEFAULTS.FRONT_SETBACK),
     rearSetback |-> Some(SHELF_RUNNER_DEFAULTS.REAR_SETBACK),
     holeDiameter |-> Some(SHELF_RUNNER_DEFAULTS.HOLE_DIAMETER),
     holesPerRunner |-> Some(SHELF_RUNNER_DEFAULTS.HOLES_PER_RUNNER)]

DEFAULT_SHELVES ==
    [adjustable |-> DEFAULT_ADJUSTABLE_SHELVES,
     fixed |-> DEFAULT_FIXED_SHELVES,
     runners |-> DEFAULT_SHELF_RUNNERS]

DEFAULT_DRAWER_PULLS ==
    [type |-> "none",
     holeDiameter |-> Some(DRAWER_PULL_DEFAULTS.HOLE_DIAMETER),
     holeSpacing |-> Some(DRAWER_PULL_DEFAULTS.SPACING_96MM),
     verticalOffset |-> Some(DRAWER_PULL_DEFAULTS.VERTICAL_OFFSET),
     horizontalPosition |-> Center]

DEFAULT_DRAWERS ==
    [enabled |-> FALSE, count |-> 0,
     slideWidth |-> DRAWER_DEFAULTS.SLIDE_CLEARANCE,
     overlayAmount |-> DRAWER_DEFAULTS.FULL_OVERLAY,
     pullHoles |-> Some(DEFAULT_DRAWER_PULLS)]

DEFAULT_TOE_KICK ==
    [enabled |-> TRUE, height |-> TOE_KICK_DEFAULTS.HEIGHT,
     depth |-> TOE_KICK_DEFAULTS.DEPTH]

DEFAULT_ASSEMBLY_PREDRILLS ==
    [enabled |-> FALSE, countersink |-> TRUE,
     pilotDiameter |-> Some(ASSEMBLY_PREDRILL_DEFAULTS.PILOT_DIAMETER),
     countersinkDiameter |-> Some(ASSEMBLY_PREDRILL_DEFAULTS.COUNTERSINK_DIAMETER),
     edgeDistance |-> Some(ASSEMBLY_PREDRILL_DEFAULTS.EDGE_DISTANCE),
     screwSpacing |-> Some(ASSEMBLY_PREDRILL_DEFAULTS.SCREW_SPACING)]

DEFAULT_SLIDE_PREDRILLS ==
    [enabled |-> FALSE,
     holeDiameter |-> Some(SLIDE_HARDWARE_DEFAULTS.HOLE_DIAMETER),
     mountingHeight |-> Some(mm(37)),
     frontOffset |-> Some(SLIDE_HARDWARE_DEFAULTS.FRONT_OFFSET),
     holeSpacing |-> Some(SLIDE_HARDWARE_DEFAULTS.HOLE_SPACING),
     holesPerSlide |-> Some(SLIDE_HARDWARE_DEFAULTS.HOLES_PER_SLIDE)]

DEFAULT_ASSEMBLY_CONFIG ==
    [globalBounds |-> [w |-> mm(600), h |-> mm(720), d |-> mm(560)],
     material |-> DEFAULT_MATERIAL,
     secondaryMaterial |-> DEFAULT_SECONDARY_MATERIAL,
     machining |-> DEFAULT_MACHINING,
     backPanel |-> DEFAULT_BACK_PANEL,
     features |-> [shelves |-> DEFAULT_SHELVES,
                   drawers |-> DEFAULT_DRAWERS,
                   toeKick |-> DEFAULT_TOE_KICK],
     predrills |-> [assembly |-> DEFAULT_ASSEMBLY_PREDRILLS,
                    slides |-> DEFAULT_SLIDE_PREDRILLS]]

-----------------------------------------------------------------------------
(* Configurations the hook is driven with                                  *)

Widths == {mm(600), mm(1000)}

Thicknesses == {mm(18), 0, mm(500)}

BackPanels ==
    {DEFAULT_BACK_PANEL,
     [DEFAULT_BACK_PANEL EXCEPT !.type = "none"],
     [DEFAULT_BACK_PANEL EXCEPT !.type = "inset"],
     [type |-> "inset", thickness |-> mm(9),
      dadoDepth |-> Undefined, insetDistance |-> Undefined],
     [type |-> "inset", thickness |-> mm(9),
      dadoDepth |-> Some(mm(8)), insetDistance |-> Some(mm(12))]}

SecondaryMaterials ==
    {DEFAULT_SECONDARY_MATERIAL,
     [backPanelThickness |-> Undefined, drawerBottomThickness |-> Undefined,
      fixedShelfThickness |-> Some(MATERIAL_THICKNESSES.HALF_INCH)],
     [DEFAULT_SECONDARY_MATERIAL EXCEPT !.backPanelThickness = Some(mm(600))]}

AdjustableShelves ==
    {DEFAULT_ADJUSTABLE_SHELVES, [DEFAULT_ADJUSTABLE_SHELVES EXCEPT !.enabled = FALSE]}

FixedShelves ==
    {DEFAULT_FIXED_SHELVES,
     [enabled |-> TRUE, positions |-> <<mm(200), mm(400)>>,
      dadoDepth |-> Some(DADO_DEFAULTS.MIN_DEPTH), useSecondaryMaterial |-> FALSE],
     [enabled |-> TRUE, positions |-> <<mm(200), mm(400)>>,
      dadoDepth |-> Undefined, useSecondaryMaterial |-> TRUE]}

Drawers ==
    {DEFAULT_DRAWERS,
     [DEFAULT_DRAWERS EXCEPT !.enabled = TRUE, !.count = 2],
     [DEFAULT_DRAWERS EXCEPT !.enabled = TRUE, !.count = 8]}

\* the initialConfig values useAssembly is constructed with
ConfigSpace ==
    {[DEFAULT_ASSEMBLY_CONFIG EXCEPT
        !.globalBounds.w = w,
        !.material.thickness = t,
        !.secondaryMaterial = sm,
        !.backPanel = bp,
        !.features.shelves.adjustable = adj,
        !.features.shelves.fixed = fx,
        !.features.drawers = dr,
        !.features.toeKick.enabled = tk] :
        w \in Widths, t \in Thicknesses, sm \in SecondaryMaterials,
        bp \in BackPanels, adj \in AdjustableShelves, fx \in FixedShelves,
        dr \in Drawers, tk \in BOOLEAN}

\* the partial configurations updateConfig is called with
UpdateSpace ==
    {[material |-> [thickness |-> mm(18)]],
     [material |-> [thickness |-> 0]],
     [globalBounds |-> [w |-> mm(1000)]],
     [backPanel |-> [type |-> "inset"]],
     [features |-> [toeKick |-> [enabled |-> FALSE]]]}

\* the whole configurations setConfig is called with
SetSpace ==
    {[DEFAULT_ASSEMBLY_CONFIG EXCEPT !.globalBounds.w = mm(1000),
                                     !.material.thickness = mm(500)],
     [DEFAULT_ASSEMBLY_CONFIG EXCEPT
        !.features.shelves.adjustable =
            [enabled |-> TRUE, count |-> 3,
             frontSetback |-> Some(mm(50)), rearSetback |-> Undefined]],
     [DEFAULT_ASSEMBLY_CONFIG EXCEPT
        !.features.drawers.enabled = TRUE,
        !.features.drawers.count = 2,
        !.predrills.slides.enabled = TRUE,
        !.predrills.slides.mountingHeight = Some(-mm(20))],
     [DEFAULT_ASSEMBLY_CONFIG EXCEPT
        !.backPanel.type = "inset",
        !.features.shelves.fixed =
            [enabled |-> TRUE, positions |-> <<mm(200), mm(400)>>,
             dadoDepth |-> Undefined, useSecondaryMaterial |-> FALSE],
        !.features.shelves.runners =
            [enabled |-> TRUE, positions |-> <<mm(150), mm(300)>>,
             frontSetback |-> Some(mm(40)), rearSetback |-> Undefined,
             holeDiameter |-> Undefined, holesPerRunner |-> Some(3)],
        !.features.drawers.enabled = TRUE,
        !.features.drawers.count = 2,
        !.predrills.slides.enabled = TRUE],
     [DEFAULT_ASSEMBLY_CONFIG EXCEPT
        !.features.shelves.runners =
            [DEFAULT_SHELF_RUNNERS EXCEPT !.enabled = TRUE,
                                          !.positions = <<mm(150)>>,
                                          !.holesPerRunner = Some(1)]],
     [DEFAULT_ASSEMBLY_CONFIG EXCEPT
        !.features.shelves.adjustable =
            [enabled |-> TRUE, count |-> 1,
             frontSetback |-> Some(mm(552)), rearSetback |-> Some(mm(5))]],
     [DEFAULT_ASSEMBLY_CONFIG EXCEPT
        !.features.shelves.adjustable.enabled = FALSE,
        !.features.drawers.enabled = TRUE,
        !.features.drawers.count = 12]}

\* the readings of the wall clock (new Date())
MaxClock == 1

-----------------------------------------------------------------------------
(* State machine                                                           *)

NotCalled == [called |-> FALSE]

NoRect == Null

NotMounted == Null

NoNesting == Null

NotNested == Null

NotInvoked == Null

NotReturned == Null

Init ==
    /\ config \in ConfigSpace
    /\ clock = 0
    /\ hook = UseAssemblyMemo(config, 0)
    /\ result = NotCalled
    /\ rect = NoRect
    /\ dogbones = <<>>
    /\ nesting = NoNesting
    /\ nested = NotNested
    /\ invoked = NotInvoked
    /\ returned = NotReturned

\* what the memo holds after a render with one of the configurations
\* setConfig and resetConfig are called with, by the reading of the clock:
\* UseAssemblyMemo of that configuration, worked out once
RenderedWith ==
    [c \in SetSpace \cup {DEFAULT_ASSEMBLY_CONFIG} |->
        [now \in 0..MaxClock |-> UseAssemblyMemo(c, now)]]

\* setConfigState(c) followed by the re-render that recomputes the memo
SetConfigState(c) ==
    /\ config' = c
    /\ hook' = IF c \in DOMAIN RenderedWith THEN RenderedWith[c][clock]
               ELSE UseAssemblyMemo(c, clock)
    /\ result' = NotCalled
    /\ UNCHANGED <<clock, rect, dogbones, nesting, nested, invoked, returned>>

SetConfig(newConfig) == SetConfigState(newConfig)

UpdateConfig(updates) == SetConfigState(MergeConfig(config, updates))

ResetConfig == SetConfigState(DEFAULT_ASSEMBLY_CONFIG)

\* a direct call buildAssembly(config): result keeps what came out of it
BuildAssembly ==
    /\ result' = [called |-> TRUE, outcome |-> buildAssembly(config, clock)]
    /\ UNCHANGED <<config, hook, clock, rect, dogbones, nesting, nested, invoked, returned>>

\* time passes
Tick ==
    /\ clock < MaxClock
    /\ clock' = clock + 1
    /\ UNCHANGED <<config, hook, result, rect, dogbones, nesting, nested, invoked, returned>>

Next ==
    \/ \E c \in SetSpace : SetConfig(c)
    \/ \E u \in UpdateSpace : UpdateConfig(u)
    \/ ResetConfig
    \/ BuildAssembly
    \/ Tick

Spec == Init /\ [][Next]_vars

-----------------------------------------------------------------------------
(* Dogbone fillet processor (src/src/lib/geometry/index.ts)                *)
(*                                                                         *)
(* The source works with Math.sqrt and Math.SQRT2.  The model keeps the    *)
(* arithmetic exact: a length is recovered from its square when the square *)
(* is a perfect square (always so for the axis-aligned edges of rectangles *)
(* and notches), and the product  offset / bisectorLen  of                 *)
(* bitRadius * sqrt(2) / sqrt(bisectorLenSq)  is recovered from its        *)
(* square  2 * bitRadius^2 / bisectorLenSq.                                *)

\* the largest k in lo..hi with k * k <= n, by bisection
RECURSIVE SqrtSearch(_, _, _)
SqrtSearch(n, lo, hi) ==
    IF lo >= hi THEN lo
    ELSE LET mid == Div(lo + hi + 1, 2)
         IN  IF mid * mid <= n THEN SqrtSearch(n, mid, hi)
             ELSE SqrtSearch(n, lo, mid - 1)

\* Math.sqrt(vx * vx + vy * vy), for a vector whose length is a whole number
Length(vx, vy) == SqrtSearch(vx * vx + vy * vy, 0, Abs(vx) + Abs(vy))

\* bitRadius * Math.SQRT2 / Math.sqrt(bisectorLenSq)
OffsetOverBisectorLen(bitRadius, bisectorLenSq) ==
    SqrtSearch(Div(2 * bitRadius * bitRadius, bisectorLenSq), 0, 2 * bitRadius)

\* Math.sign
Sign(v) == IF v > 0 THEN 1 ELSE IF v < 0 THEN -1 ELSE 0

\* calculateDogboneCenter taking the 'horizontal' strategy whatever direction says
calculateDogboneCenterAlongX(corner, bitRadius, prevPoint, nextPoint, direction) ==
    LET v1x == prevPoint[1] - corner[1]
        v2x == nextPoint[1] - corner[1]
        dirX == IF v1x /= 0 THEN Sign(v1x) ELSE Sign(v2x)
    IN  <<corner[1] + dirX * bitRadius, corner[2]>>

calculateDogboneCenter(corner, bitRadius, prevPoint, nextPoint, direction) ==
    LET cx == corner[1]
        cy == corner[2]
        v1x == prevPoint[1] - cx
        v1y == prevPoint[2] - cy
        v2x == nextPoint[1] - cx
        v2y == nextPoint[2] - cy
    IN  CASE direction = "diagonal" ->
                LET len1 == Length(v1x, v1y)
                    len2 == Length(v2x, v2y)
                IN  IF len1 = 0 \/ len2 = 0 THEN corner
                    ELSE
                        LET n1x == Div(v1x, len1)
                            n1y == Div(v1y, len1)
                            n2x == Div(v2x, len2)
                            n2y == Div(v2y, len2)
                            bisectorX == n1x + n2x
                            bisectorY == n1y + n2y
                            bisectorLenSq == bisectorX * bisectorX + bisectorY * bisectorY
                        IN  IF bisectorLenSq = 0 THEN corner
                            ELSE
                                \* bx * offset = bisectorX / bisectorLen * offset
                                LET scale == OffsetOverBisectorLen(bitRadius, bisectorLenSq)
                                IN  <<cx + bisectorX * scale, cy + bisectorY * scale>>
          [] direction = "horizontal" ->
                LET dirX == IF v1x /= 0 THEN Sign(v1x) ELSE Sign(v2x)
                IN  <<cx + dirX * bitRadius, cy>>
          [] OTHER ->
                LET dirY == IF v1y /= 0 THEN Sign(v1y) ELSE Sign(v2y)
                IN  <<cx, cy + dirY * bitRadius>>

\* the test with the sign of the clockwise convention
isInternalCornerClockwise(prevPoint, corner, nextPoint) ==
    LET v1x == prevPoint[1] - corner[1]
        v1y == prevPoint[2] - corner[2]
        v2x == nextPoint[1] - corner[1]
        v2y == nextPoint[2] - corner[2]
        cross == v1x * v2y - v1y * v2x
    IN  cross < 0

isInternalCorner(prevPoint, corner, nextPoint) ==
    LET v1x == prevPoint[1] - corner[1]
        v1y == prevPoint[2] - corner[2]
        v2x == nextPoint[1] - corner[1]
        v2y == nextPoint[2] - corner[2]
        cross == v1x * v2y - v1y * v2x
    IN  cross > 0

\* the four corners, counter-clockwise from bottom-left (corners[i] is RectCorners[i + 1])
RectCorners(x, y, width, height) ==
    <<<<x, y>>, <<x + width, y>>, <<x + width, y + height>>, <<x, y + height>>>>

generateRectangleDogbones(x, y, width, height, bitDiameter) ==
    LET bitRadius == Div(bitDiameter, 2)
        corners == RectCorners(x, y, width, height)
    IN  [k \in 1..4 |->
            LET i == k - 1
                prev == corners[((i + 3) % 4) + 1]
                curr == corners[i + 1]
                next == corners[((i + 1) % 4) + 1]
            IN  [center |-> calculateDogboneCenter(curr, bitRadius, prev, next, "diagonal"),
                 radius |-> bitRadius,
                 cornerIndex |-> i]]

\* Arguments the processor is called with
RectOrigins == {<<0, 0>>, <<mm(10), mm(7)>>, <<-mm(5), mm(3)>>}

RectSizes == {0, mm(10), tenths(127), mm(20)}

BitDiameters == {hundredths(635), mm(6), tenths(127)}

RectSpace ==
    {[x |-> o[1], y |-> o[2], width |-> width, height |-> height,
      bitDiameter |-> bitDiameter] :
        o \in RectOrigins, width \in RectSizes, height \in RectSizes,
        bitDiameter \in BitDiameters}

\* rect holds the arguments of the call to come; nothing is returned yet.
\* The processor is called on its own: no component has mounted the hook.
DogboneInit ==
    /\ config = DEFAULT_ASSEMBLY_CONFIG
    /\ clock = 0
    /\ hook = NotMounted
    /\ result = NotCalled
    /\ rect \in RectSpace
    /\ dogbones = <<>>
    /\ nesting = NoNesting
    /\ nested = NotNested
    /\ invoked = NotInvoked
    /\ returned = NotReturned

\* the call generateRectangleDogbones(x, y, width, height, bitDiameter)
GenerateRectangleDogbones ==
    /\ rect /= NoRect
    /\ dogbones' = generateRectangleDogbones(rect.x, rect.y, rect.width, rect.height,
                                              rect.bitDiameter)
    /\ UNCHANGED <<config, clock, hook, result, rect, nesting, nested, invoked, returned>>

DogboneNext == GenerateRectangleDogbones

DogboneSpec == DogboneInit /\ [][DogboneNext]_vars

-----------------------------------------------------------------------------
(* Notch dogbones (src/src/lib/geometry/index.ts, src/src/lib/export/svg.ts) *)

\* The table internalCorners of generateNotchDogbones: for each corner value,
\* the two corners it relieves, each with the points before and after it.
\* The 1 of the source is one millimetre.
NotchInternalCorners(x, y, width, height, corner) ==
    CASE corner = "bottom-left" ->
            <<[pos |-> <<x + width, y>>, prev |-> <<x + width, y - mm(1)>>,
               next |-> <<x, y>>],
              [pos |-> <<x, y + height>>, prev |-> <<x, y>>,
               next |-> <<x - mm(1), y + height>>]>>
      [] corner = "bottom-right" ->
            <<[pos |-> <<x, y>>, prev |-> <<x + width, y>>,
               next |-> <<x, y - mm(1)>>],
              [pos |-> <<x + width, y + height>>,
               prev |-> <<x + width + mm(1), y + height>>,
               next |-> <<x + width, y>>]>>
      [] corner = "top-left" ->
            <<[pos |-> <<x, y>>, prev |-> <<x - mm(1), y>>,
               next |-> <<x, y + height>>],
              [pos |-> <<x + width, y + height>>, prev |-> <<x, y + height>>,
               next |-> <<x + width, y + height + mm(1)>>]>>
      [] corner = "top-right" ->
            <<[pos |-> <<x + width, y>>, prev |-> <<x + width, y + height>>,
               next |-> <<x + width + mm(1), y>>],
              [pos |-> <<x, y + height>>, prev |-> <<x, y + height + mm(1)>>,
               next |-> <<x + width, y + height>>]>>
      [] OTHER -> <<>>

generateNotchDogbones(x, y, width, height, corner, bitDiameter) ==
    LET bitRadius == Div(bitDiameter, 2)
        Fillets(internalCorners) ==
            [k \in 1..Len(internalCorners) |->
                [center |-> calculateDogboneCenter(internalCorners[k].pos, bitRadius,
                                                   internalCorners[k].prev,
                                                   internalCorners[k].next, "diagonal"),
                 radius |-> bitRadius,
                 cornerIndex |-> k - 1]]
    IN  Fillets(NotchInternalCorners(x, y, width, height, corner))

\* The points of the path rectangleWithNotchPath draws (M, then each L), in
\* order; Z closes the path from the last point to the first.
rectangleWithNotchPath(x, y, width, height, notch) ==
    LET nw == notch.width
        nh == notch.height
    IN  CASE notch.corner = "bottom-left" ->
                <<<<x + nw, y>>, <<x + width, y>>, <<x + width, y + height>>,
                  <<x, y + height>>, <<x, y + nh>>, <<x + nw, y + nh>>>>
          [] notch.corner = "bottom-right" ->
                <<<<x, y>>, <<x + width - nw, y>>, <<x + width - nw, y + nh>>,
                  <<x + width, y + nh>>, <<x + width, y + height>>, <<x, y + height>>>>
          [] notch.corner = "top-left" ->
                <<<<x, y>>, <<x + width, y>>, <<x + width, y + height>>,
                  <<x + nw, y + height>>, <<x + nw, y + height - nh>>,
                  <<x, y + height - nh>>>>
          [] notch.corner = "top-right" ->
                <<<<x, y>>, <<x + width, y>>, <<x + width, y + height - nh>>,
                  <<x + width - nw, y + height - nh>>, <<x + width - nw, y + height>>,
                  <<x, y + height>>>>
          [] OTHER ->
                <<<<x, y>>, <<x + width, y>>, <<x + width, y + height>>,
                  <<x, y + height>>>>

\* notchX, notchY of generatePanelSVG: where the notch rectangle starts on a
\* panel of the flat size width x height drawn at (offsetX, offsetY)
NotchPosition(offsetX, offsetY, width, height, notch) ==
    CASE notch.corner = "bottom-left" -> <<offsetX, offsetY>>
      [] notch.corner = "bottom-right" -> <<offsetX + width - notch.width, offsetY>>
      [] notch.corner = "top-left" -> <<offsetX, offsetY + height - notch.height>>
      [] notch.corner = "top-right" ->
            <<offsetX + width - notch.width, offsetY + height - notch.height>>
      [] OTHER -> <<offsetX, offsetY>>

\* Panels with a corner notch the exporter draws
PanelOffsets == {<<0, 0>>, <<mm(10), mm(5)>>}

PanelSizes == {<<mm(40), mm(50)>>, <<mm(30), mm(30)>>}

NotchSizes == {<<mm(10), mm(10)>>, <<tenths(75), mm(12)>>}

NotchCornerValues == {"bottom-left", "bottom-right", "top-left", "top-right"}

NotchSpace ==
    {[offsetX |-> o[1], offsetY |-> o[2], width |-> p[1], height |-> p[2],
      notch |-> [type |-> "notch", width |-> n[1], height |-> n[2], corner |-> c],
      bitDiameter |-> bitDiameter] :
        o \in PanelOffsets, p \in PanelSizes, n \in NotchSizes,
        c \in NotchCornerValues, bitDiameter \in BitDiameters}

\* rect holds the notched panel the exporter is about to draw
NotchInit ==
    /\ config = DEFAULT_ASSEMBLY_CONFIG
    /\ clock = 0
    /\ hook = NotMounted
    /\ result = NotCalled
    /\ rect \in NotchSpace
    /\ dogbones = <<>>
    /\ nesting = NoNesting
    /\ nested = NotNested
    /\ invoked = NotInvoked
    /\ returned = NotReturned

\* the exporter's call generateNotchDogbones(notchX, notchY, notch.width,
\* notch.height, notch.corner, bitDiameter)
GenerateNotchDogbones ==
    /\ rect /= NoRect
    /\ LET Call(position) ==
               generateNotchDogbones(position[1], position[2], rect.notch.width,
                                     rect.notch.height, rect.notch.corner,
                                     rect.bitDiameter)
       IN  dogbones' = Call(NotchPosition(rect.offsetX, rect.offsetY, rect.width,
                                          rect.height, rect.notch))
    /\ UNCHANGED <<config, clock, hook, result, rect, nesting, nested, invoked, returned>>

NotchNext == GenerateNotchDogbones

NotchSpec == NotchInit /\ [][NotchNext]_vars

-----------------------------------------------------------------------------
(* Sheet nesting (src/src/lib/nesting: flatDimensions.ts, the packer in    *)
(* packer.test.ts 375-606, nestParts in src/unnamed/part_007)              *)

\* [a, b, c].sort((x, y) => y - x)
SortDescending(a, b, c) ==
    LET hi == Max(a, Max(b, c))
        lo == IF a <= b /\ a <= c THEN a ELSE IF b <= c THEN b ELSE c
    IN  <<hi, a + b + c - hi - lo, lo>>

getFlatDimensions(component) ==
    LET dimX == component.dimensions[1]
        dimY == component.dimensions[2]
        dimZ == component.dimensions[3]
        role == component.role
    IN  CASE role \in {"side_panel_left", "side_panel_right"} ->
                [width |-> dimZ, height |-> dimY]
          [] role \in {"top_panel", "bottom_panel"} -> [width |-> dimX, height |-> dimZ]
          [] role = "back_panel" -> [width |-> dimX, height |-> dimY]
          [] role = "shelf" -> [width |-> dimX, height |-> dimZ]
          [] role = "drawer_front" -> [width |-> dimX, height |-> dimY]
          [] role = "drawer_side" -> [width |-> dimZ, height |-> dimY]
          [] role = "drawer_back" -> [width |-> dimX, height |-> dimY]
          [] role = "drawer_bottom" -> [width |-> dimX, height |-> dimZ]
          [] role = "toe_kick_panel" -> [width |-> dimX, height |-> dimY]
          [] role = "runner_strip" -> [width |-> dimZ, height |-> dimX]
          [] role = "back_stretcher" -> [width |-> dimX, height |-> dimY]
          [] OTHER -> [width |-> SortDescending(dimX, dimY, dimZ)[1],
                       height |-> SortDescending(dimX, dimY, dimZ)[2]]

\* a quotient of two areas, kept as the pair; areas are counted in whole
\* square millimetres
Ratio(part, whole) == IF whole > 0 THEN <<part, whole>> ELSE <<0, 1>>

PartArea(part) == Div(part.width, mm(1)) * Div(part.height, mm(1))

UsableArea(usableWidth, usableHeight) ==
    Div(usableWidth, mm(1)) * Div(usableHeight, mm(1))

RECURSIVE TotalPartArea(_)
\* placements.reduce((sum, p) => sum + p.part.width * p.part.height, 0)
TotalPartArea(placements) ==
    IF placements = <<>> THEN 0
    ELSE PartArea(placements[1].part) + TotalPartArea(Tail(placements))

rotatePart(part) ==
    [part EXCEPT !.width = part.height, !.height = part.width,
                 !.rotated = ~part.rotated]

getNextShelfY(shelves, edgeMargin, spacing) ==
    IF Len(shelves) = 0 THEN edgeMargin
    ELSE shelves[Len(shelves)].y + shelves[Len(shelves)].height + spacing

\* a new shelf opened whatever height is left on the sheet
canOpenNewShelfAnyHeight(part, shelves, usableWidth, usableHeight, edgeMargin, spacing) ==
    ~(part.width > usableWidth)

canOpenNewShelf(part, shelves, usableWidth, usableHeight, edgeMargin, spacing) ==
    IF part.width > usableWidth THEN FALSE
    ELSE IF getNextShelfY(shelves, edgeMargin, spacing) + part.height
                > edgeMargin + usableHeight
    THEN FALSE
    ELSE TRUE

\* a new shelf whose next free X leaves no spacing after its first part
openNewShelfNoSpacing(part, packing, edgeMargin, spacing) ==
    [packing EXCEPT
        !.shelves = Append(@, [y |-> getNextShelfY(packing.shelves, edgeMargin, spacing),
                               height |-> part.height,
                               currentX |-> edgeMargin + part.width]),
        !.placements = Append(@, [part |-> part, x |-> edgeMargin,
                                  y |-> getNextShelfY(packing.shelves, edgeMargin,
                                                      spacing)])]

\* packing is the sheet being filled: its placements, shelves and overflow
openNewShelf(part, packing, edgeMargin, spacing) ==
    [packing EXCEPT
        !.shelves = Append(@, [y |-> getNextShelfY(packing.shelves, edgeMargin, spacing),
                               height |-> part.height,
                               currentX |-> edgeMargin + part.width + spacing]),
        !.placements = Append(@, [part |-> part, x |-> edgeMargin,
                                  y |-> getNextShelfY(packing.shelves, edgeMargin,
                                                      spacing)])]

\* the loop of fitsOnExistingShelf: the index of the first shelf that takes
\* the part, 0 when none does
FirstShelfTaking(part, shelves, usableWidth, edgeMargin) ==
    LET Takes(k) ==
            /\ ~(part.height > shelves[k].height)
            /\ ~(part.width > usableWidth - (shelves[k].currentX - edgeMargin))
        taking == {k \in DOMAIN shelves : Takes(k)}
    IN  IF taking = {} THEN 0 ELSE CHOOSE k \in taking : \A j \in taking : k <= j

\* the placement fitsOnExistingShelf makes on shelf k
PlaceOnShelf(part, packing, k, spacing) ==
    [packing EXCEPT
        !.placements = Append(@, [part |-> part, x |-> packing.shelves[k].currentX,
                                  y |-> packing.shelves[k].y]),
        !.shelves[k].currentX = @ + part.width + spacing]

\* tryPlacePart, followed by packSheet's overflow.push(part) when it returns
\* false
tryPlacePart(part, packing, usableWidth, usableHeight, edgeMargin, spacing, allowRotation) ==
    IF FirstShelfTaking(part, packing.shelves, usableWidth, edgeMargin) /= 0
    THEN PlaceOnShelf(part, packing,
                      FirstShelfTaking(part, packing.shelves, usableWidth, edgeMargin),
                      spacing)
    ELSE IF /\ allowRotation
            /\ FirstShelfTaking(rotatePart(part), packing.shelves, usableWidth,
                                edgeMargin) /= 0
    THEN PlaceOnShelf(rotatePart(part), packing,
                      FirstShelfTaking(rotatePart(part), packing.shelves, usableWidth,
                                       edgeMargin),
                      spacing)
    ELSE IF canOpenNewShelf(part, packing.shelves, usableWidth, usableHeight,
                            edgeMargin, spacing)
    THEN openNewShelf(part, packing, edgeMargin, spacing)
    ELSE IF /\ allowRotation
            /\ canOpenNewShelf(rotatePart(part), packing.shelves, usableWidth,
                               usableHeight, edgeMargin, spacing)
    THEN openNewShelf(rotatePart(part), packing, edgeMargin, spacing)
    ELSE [packing EXCEPT !.overflow = Append(@, part)]

RECURSIVE InsertByHeight(_, _)
\* part put behind every part of sorted that is at least as high
InsertByHeight(sorted, part) ==
    IF sorted = <<>> THEN <<part>>
    ELSE IF Head(sorted).height >= part.height
         THEN <<Head(sorted)>> \o InsertByHeight(Tail(sorted), part)
         ELSE <<part>> \o sorted

RECURSIVE SortByHeightDescending(_)
\* [...parts].sort((a, b) => b.height - a.height), a stable sort
SortByHeightDescending(parts) ==
    IF parts = <<>> THEN <<>>
    ELSE InsertByHeight(SortByHeightDescending(SubSeq(parts, 1, Len(parts) - 1)),
                        parts[Len(parts)])

RECURSIVE PackLoop(_, _, _, _, _, _, _)
\* for (const part of sorted) { ... }
PackLoop(sorted, packing, usableWidth, usableHeight, edgeMargin, spacing, allowRotation) ==
    IF sorted = <<>> THEN packing
    ELSE PackLoop(Tail(sorted),
                  tryPlacePart(Head(sorted), packing, usableWidth, usableHeight,
                               edgeMargin, spacing, allowRotation),
                  usableWidth, usableHeight, edgeMargin, spacing, allowRotation)

EmptyPacking == [placements |-> <<>>, shelves |-> <<>>, overflow |-> <<>>]

packSheet(parts, nc, sheetIndex) ==
    LET bedWidth == nc.bedSize[1]
        bedHeight == nc.bedSize[2]
        usableWidth == bedWidth - 2 * nc.edgeMargin
        usableHeight == bedHeight - 2 * nc.edgeMargin
        Outcome(packing) ==
            [sheet |->
                [index |-> sheetIndex,
                 materialThickness |->
                     IF Len(packing.placements) > 0
                     THEN packing.placements[1].part.materialThickness ELSE 0,
                 dimensions |-> <<bedWidth, bedHeight>>,
                 placements |-> packing.placements,
                 shelves |-> packing.shelves,
                 utilization |-> Ratio(TotalPartArea(packing.placements),
                                       UsableArea(usableWidth, usableHeight))],
             overflow |-> packing.overflow]
    IN  Outcome(PackLoop(SortByHeightDescending(parts), EmptyPacking, usableWidth,
                         usableHeight, nc.edgeMargin, nc.partSpacing,
                         nc.allowRotation))

\* n.toFixed(0) of a length
ToFixed0(n) ==
    IF n < 0 THEN "-" \o ToString(Div(-n + Div(mm(1), 2), mm(1)))
    ELSE ToString(Div(n + Div(mm(1), 2), mm(1)))

\* the NestingPart nestParts makes of a component
NestingPartOf(component) ==
    [width |-> getFlatDimensions(component).width,
     height |-> getFlatDimensions(component).height,
     rotated |-> FALSE,
     instanceId |-> component.id,
     label |-> component.label,
     role |-> component.role,
     materialThickness |-> component.materialThickness]

\* assembly.components.filter(c => c.layer === 'OUTSIDE_CUT').map(...)
NestingParts(assembly) ==
    LET IsPanel(c) == c.layer = "OUTSIDE_CUT"
        panels == SelectSeq(assembly.components, IsPanel)
    IN  [k \in DOMAIN panels |-> NestingPartOf(panels[k])]

RECURSIVE GroupKeys(_, _)
\* the keys of the groups Map, in insertion order
GroupKeys(parts, seen) ==
    IF parts = <<>> THEN <<>>
    ELSE IF Head(parts).materialThickness \in seen THEN GroupKeys(Tail(parts), seen)
    ELSE <<Head(parts).materialThickness>>
         \o GroupKeys(Tail(parts), seen \cup {Head(parts).materialThickness})

GroupParts(parts, key) ==
    LET InGroup(p) == p.materialThickness = key
    IN  SelectSeq(parts, InGroup)

FitsUsableArea(part, nc) ==
    LET usableWidth == nc.bedSize[1] - 2 * nc.edgeMargin
        usableHeight == nc.bedSize[2] - 2 * nc.edgeMargin
        fitsNormal == part.width <= usableWidth /\ part.height <= usableHeight
        fitsRotated ==
            /\ nc.allowRotation
            /\ part.height <= usableWidth
            /\ part.width <= usableHeight
    IN  ~(~fitsNormal /\ ~fitsRotated)

OversizeWarning(part, nc) ==
    "Part \"" \o part.label \o "\" (" \o ToFixed0(part.width) \o " x "
    \o ToFixed0(part.height) \o "mm) exceeds usable sheet area ("
    \o ToFixed0(nc.bedSize[1] - 2 * nc.edgeMargin) \o " x "
    \o ToFixed0(nc.bedSize[2] - 2 * nc.edgeMargin) \o "mm)"

\* the pre-filter of one group: acc gains the oversized parts and their
\* warnings
PreFilter(groupParts, nc, acc) ==
    LET Oversized(p) == ~FitsUsableArea(p, nc)
        oversized == SelectSeq(groupParts, Oversized)
    IN  [acc EXCEPT
            !.unfitted = @ \o oversized,
            !.warnings = @ \o [k \in DOMAIN oversized |-> OversizeWarning(oversized[k], nc)]]

Fittable(groupParts, nc) ==
    LET Fits(p) == FitsUsableArea(p, nc)
    IN  SelectSeq(groupParts, Fits)

RECURSIVE SheetLoop(_, _, _)
RECURSIVE SheetStep(_, _, _)
\* while (remaining.length > 0) { ... }
SheetLoop(remaining, nc, acc) ==
    IF Len(remaining) > 0
    THEN SheetStep(packSheet(remaining, nc, Len(acc.sheets)), nc, acc)
    ELSE acc

\* the body of the loop keeping the first sheet only
SheetStepSingleSheet(packed, nc, acc) ==
    IF Len(packed.sheet.placements) = 0
    THEN [acc EXCEPT !.unfitted = @ \o packed.overflow]
    ELSE [acc EXCEPT !.sheets = Append(@, packed.sheet)]

\* the body of the loop, packed being what packSheet returned
SheetStep(packed, nc, acc) ==
    IF Len(packed.sheet.placements) = 0
    THEN [acc EXCEPT !.unfitted = @ \o packed.overflow]
    ELSE SheetLoop(packed.overflow, nc, [acc EXCEPT !.sheets = Append(@, packed.sheet)])

RECURSIVE GroupLoop(_, _, _, _)
\* for (const [, groupParts] of groups) { ... }
GroupLoop(keys, parts, nc, acc) ==
    IF keys = <<>> THEN acc
    ELSE GroupLoop(Tail(keys), parts, nc,
                   SheetLoop(Fittable(GroupParts(parts, Head(keys)), nc), nc,
                             PreFilter(GroupParts(parts, Head(keys)), nc, acc)))

RECURSIVE SheetThicknesses(_, _)
\* the keys of summaryMap, in insertion order
SheetThicknesses(sheets, seen) ==
    IF sheets = <<>> THEN <<>>
    ELSE IF Head(sheets).materialThickness \in seen
         THEN SheetThicknesses(Tail(sheets), seen)
    ELSE <<Head(sheets).materialThickness>>
         \o SheetThicknesses(Tail(sheets), seen \cup {Head(sheets).materialThickness})

RECURSIVE SheetsPartArea(_)
SheetsPartArea(sheets) ==
    IF sheets = <<>> THEN 0
    ELSE TotalPartArea(Head(sheets).placements) + SheetsPartArea(Tail(sheets))

MaterialSummaries(sheets, usableArea) ==
    LET keys == SheetThicknesses(sheets, {})
        Of(key) == LET Is(s) == s.materialThickness = key IN SelectSeq(sheets, Is)
    IN  [k \in DOMAIN keys |->
            [materialThickness |-> keys[k],
             sheetCount |-> Len(Of(keys[k])),
             averageUtilization |->
                 Ratio(SheetsPartArea(Of(keys[k])), usableArea * Len(Of(keys[k])))]]

EmptyNesting == [sheets |-> <<>>, unfitted |-> <<>>, warnings |-> <<>>]

nestParts(assembly, nc) ==
    LET usableArea ==
            UsableArea(nc.bedSize[1] - 2 * nc.edgeMargin,
                       nc.bedSize[2] - 2 * nc.edgeMargin)
        Result(acc) ==
            [sheets |-> acc.sheets,
             unfittedParts |-> acc.unfitted,
             sheetCount |-> Len(acc.sheets),
             overallUtilization |->
                 Ratio(SheetsPartArea(acc.sheets), Len(acc.sheets) * usableArea),
             materialSummaries |-> MaterialSummaries(acc.sheets, usableArea),
             warnings |-> acc.warnings]
    IN  Result(GroupLoop(GroupKeys(NestingParts(assembly), {}), NestingParts(assembly),
                         nc, EmptyNesting))

\* makeComponent(id, dims, role, thickness) of the packer tests, with the
\* layer as a fifth argument
makeComponent(id, dims, role, thickness, layer) ==
    [id |-> id, label |-> id, role |-> role, dimensions |-> dims,
     position |-> <<0, 0, 0>>, rotation |-> <<0, 0, 0>>, features |-> <<>>,
     layer |-> layer, materialThickness |-> thickness]

\* the shapes of the components handed to the nesting: panels that fit a
\* 4 x 4 bed, one too long for it, one that fits a narrow bed only when
\* rotated, a thin back panel, a shelf and a component that is no panel
NestingShapes ==
    {[dims |-> <<mm(18), mm(720), mm(560)>>, role |-> "side_panel_left",
      thickness |-> mm(18), layer |-> "OUTSIDE_CUT"],
     [dims |-> <<mm(564), mm(18), mm(560)>>, role |-> "top_panel",
      thickness |-> mm(18), layer |-> "OUTSIDE_CUT"],
     [dims |-> <<mm(18), mm(1300), mm(250)>>, role |-> "side_panel_left",
      thickness |-> mm(18), layer |-> "OUTSIDE_CUT"],
     [dims |-> <<mm(18), mm(250), mm(1000)>>, role |-> "side_panel_right",
      thickness |-> mm(18), layer |-> "OUTSIDE_CUT"],
     [dims |-> <<mm(576), mm(596), mm(6)>>, role |-> "back_panel",
      thickness |-> mm(6), layer |-> "OUTSIDE_CUT"],
     [dims |-> <<mm(563), mm(18), mm(513)>>, role |-> "adjustable_shelf",
      thickness |-> mm(18), layer |-> "OUTSIDE_CUT"],
     [dims |-> <<mm(100), mm(100), mm(18)>>, role |-> "back_panel",
      thickness |-> mm(18), layer |-> "DRILL_5MM"]}

\* the longest list of made-up components nested
MaxParts == 3

\* the Assembly of a list of shapes, the components named by their place
AssemblyOf(shapes) ==
    [components |->
        [k \in DOMAIN shapes |->
            makeComponent("part_" \o ToString(k), shapes[k].dims, shapes[k].role,
                          shapes[k].thickness, shapes[k].layer)]]

NestedAssemblies ==
    {AssemblyOf(shapes) : shapes \in UNION {[1..n -> NestingShapes] : n \in 0..MaxParts}}
    \cup {[components |->
              BuildComponents(
                  [DEFAULT_ASSEMBLY_CONFIG EXCEPT !.features.drawers.enabled = TRUE,
                                                  !.features.drawers.count = 2],
                  0).assembly.components]}

BED_SIZES == [FOUR_BY_FOUR |-> <<mm(1219), mm(1219)>>,
              FOUR_BY_EIGHT |-> <<mm(1219), mm(2438)>>]

NESTING_DEFAULTS ==
    [EDGE_MARGIN |-> mm(15), COMFORT_MARGIN |-> mm(1), MIN_PART_SPACING |-> mm(3)]

DEFAULT_NESTING_CONFIG ==
    [bedSize |-> BED_SIZES.FOUR_BY_FOUR,
     edgeMargin |-> NESTING_DEFAULTS.EDGE_MARGIN,
     partSpacing |-> hundredths(635) + NESTING_DEFAULTS.COMFORT_MARGIN,
     allowRotation |-> TRUE,
     bitDiameter |-> hundredths(635)]

NestingConfigs ==
    {[DEFAULT_NESTING_CONFIG EXCEPT !.bedSize = bed, !.edgeMargin = margin,
                                    !.partSpacing = spacing, !.allowRotation = rot] :
        bed \in {BED_SIZES.FOUR_BY_FOUR, <<mm(300), mm(1219)>>},
        margin \in {NESTING_DEFAULTS.EDGE_MARGIN, 0},
        spacing \in {DEFAULT_NESTING_CONFIG.partSpacing, 0},
        rot \in BOOLEAN}

NestInit ==
    /\ nesting \in [assembly : NestedAssemblies, config : NestingConfigs]
    /\ nested = NotNested
    /\ invoked = NotInvoked
    /\ returned = NotReturned
    /\ config = DEFAULT_ASSEMBLY_CONFIG
    /\ clock = 0
    /\ hook = NotMounted
    /\ result = NotCalled
    /\ rect = NoRect
    /\ dogbones = <<>>

\* nestParts(assembly, nestingConfig)
NestParts ==
    /\ nested' = [call |-> "nestParts",
                  value |-> nestParts(nesting.assembly, nesting.config)]
    /\ UNCHANGED <<config, clock, hook, result, rect, dogbones, nesting, invoked, returned>>

\* packSheet(parts, config, 0), with the parts of the assembly
PackSheet ==
    /\ nested' = [call |-> "packSheet",
                  value |-> packSheet(NestingParts(nesting.assembly), nesting.config, 0)]
    /\ UNCHANGED <<config, clock, hook, result, rect, dogbones, nesting, invoked, returned>>

NestNext == NestParts \/ PackSheet

NestSpec == NestInit /\ [][NestNext]_vars

-----------------------------------------------------------------------------
(* A caller that keeps its configuration object after the build            *)
(* (src/src/lib/geometry/assembly.ts, buildAssembly's return statement)    *)

\* Here config is the content of the one AssemblyConfig object the caller
\* owns, and an object field holds either a value built by the call or a
\* reference to the caller's object.

\* the reference to the caller's AssemblyConfig object
CallerConfig == [ref |-> "config"]

\* return { config, components, interiorBounds, metadata }: components,
\* interiorBounds and metadata are objects built by the call out of numbers
\* and strings read from the config; the config property is the parameter
\* itself
ReturnedByBuildAssembly(outcome, configRef) ==
    IF outcome.threw THEN outcome
    ELSE [outcome EXCEPT !.assembly.config = configRef]

\* what reading the fields of an object gives, the references followed
ReadObject(object) ==
    [k \in DOMAIN object |-> IF object[k] = CallerConfig THEN config ELSE object[k]]

\* the configuration objects a caller holds
CallerConfigSpace ==
    {c \in ConfigSpace :
        /\ c.secondaryMaterial = DEFAULT_SECONDARY_MATERIAL
        /\ c.features.shelves.fixed = DEFAULT_FIXED_SHELVES
        /\ c.features.drawers.count <= 2}

AliasInit ==
    /\ config \in CallerConfigSpace
    /\ clock = 0
    /\ hook = NotMounted
    /\ result = NotCalled
    /\ rect = NoRect
    /\ dogbones = <<>>
    /\ nesting = NoNesting
    /\ nested = NotNested
    /\ invoked = NotInvoked
    /\ returned = NotReturned

\* const assembly = buildAssembly(config), the caller keeping both
CallBuildAssembly ==
    /\ result' = [called |-> TRUE,
                  outcome |-> ReturnedByBuildAssembly(buildAssembly(config, clock),
                                                      CallerConfig)]
    /\ UNCHANGED <<config, hook, clock, rect, dogbones, nesting, nested, invoked, returned>>

\* config.globalBounds.w = w, by the caller, on its own object
AssignWidth(w) ==
    /\ config' = [config EXCEPT !.globalBounds.w = w]
    /\ UNCHANGED <<hook, result, clock, rect, dogbones, nesting, nested, invoked, returned>>

\* config.material.thickness = t, by the caller, on its own object
AssignThickness(t) ==
    /\ config' = [config EXCEPT !.material.thickness = t]
    /\ UNCHANGED <<hook, result, clock, rect, dogbones, nesting, nested, invoked, returned>>

AliasNext ==
    \/ CallBuildAssembly
    \/ \E w \in Widths : AssignWidth(w)
    \/ \E t \in Thicknesses : AssignThickness(t)

AliasSpec == AliasInit /\ [][AliasNext]_vars

-----------------------------------------------------------------------------
(* Properties                                                              *)

\* The assemblies a state holds: the one the latest direct buildAssembly call
\* returned and the one the hook's memo holds
BuiltAssemblies ==
    (IF result.called /\ ~result.outcome.threw THEN {result.outcome.assembly} ELSE {})
    \cup (IF hook.assembly /= Null THEN {hook.assembly} ELSE {})

ComponentsWithRole(components, role) ==
    LET HasRole(c) == c.role = role
    IN  SelectSeq(components, HasRole)

HolesWithPurpose(panel, purpose) ==
    LET Keep(f) == f.type = "hole" /\ f.purpose = purpose
    IN  SelectSeq(panel.features, Keep)

SlotsWithPurpose(panel, purpose) ==
    LET Keep(f) == f.type = "slot" /\ f.purpose = purpose
    IN  SelectSeq(panel.features, Keep)

\* a slot whose path runs along the panel's Y axis / X axis
RunsAlongY(slot) == slot.path[1][1] = slot.path[2][1]
RunsAlongX(slot) == slot.path[1][2] = slot.path[2][2]

\* The back-panel dados of a carcass panel.  The builder tags every dado with
\* purpose "dado"; on a side panel the back-panel dado is the one running up
\* the panel (fixed-shelf dados run across it), on the top and bottom panels
\* every dado is a back-panel dado.
BackPanelDados(panel) ==
    LET Keep(f) ==
            /\ f.type = "slot"
            /\ f.purpose = "dado"
            /\ (panel.role \in {"side_panel_left", "side_panel_right"} => RunsAlongY(f))
    IN  SelectSeq(panel.features, Keep)

FixedShelfDados(panel) ==
    LET Keep(f) == f.type = "slot" /\ f.purpose = "dado" /\ RunsAlongX(f)
    IN  SelectSeq(panel.features, Keep)

CarcassRoles == {"side_panel_left", "side_panel_right", "top_panel", "bottom_panel"}

DirectBuildThrew == result.called /\ result.outcome.threw

(* C1 *)
\* C1: whenever validateConfig(config).valid is false, a direct
\* buildAssembly(config) has thrown, has called none of the generators and has
\* returned no Assembly, and the useAssembly memo holds assembly == null.
C1_InvalidConfigNeverBuilds ==
    ~validateConfig(config).valid =>
        /\ result.called =>
            /\ result.outcome.threw
            /\ result.outcome.called = <<>>
            /\ result.outcome.assembly = Null
        /\ hook.assembly = Null
        /\ ~hook.validation.valid

C1_Witness ==
    /\ ~validateConfig(config).valid
    /\ DirectBuildThrew
    /\ result.outcome.called = <<>>
    /\ hook.assembly = Null

(* C2 *)
\* C2 as stated: the message thrown by buildAssembly is exactly
\* validateConfig(config).errors joined with newlines.
C2_MessageIsJoinedErrors ==
    DirectBuildThrew =>
        result.outcome.message = join(validateConfig(config).errors, "\n")

\* C2 amended: the message thrown by buildAssembly is the header line
\* "Invalid assembly configuration:" followed by a newline and then
\* validateConfig(config).errors joined with newlines, every error once and in
\* validation order.
C2_MessageIsHeaderThenJoinedErrors ==
    DirectBuildThrew =>
        LET errors == validateConfig(config).errors
        IN  /\ Len(errors) >= 1
            /\ result.outcome.message =
                   "Invalid assembly configuration:" \o "\n" \o join(errors, "\n")
            /\ hook.validation.errors = errors

C2_Witness ==
    /\ DirectBuildThrew
    /\ Len(validateConfig(config).errors) >= 3

(* C3 *)
\* C3: in every built Assembly whose configuration enables adjustable shelves,
\* the shelf_pin holes of the left and of the right side panel are equally
\* many, and the i-th of each have the same position (column X and Y).
C3_ShelfPinSymmetry ==
    \A a \in BuiltAssemblies :
        a.config.features.shelves.adjustable.enabled =>
            LET left == ComponentsWithRole(a.components, "side_panel_left")
                right == ComponentsWithRole(a.components, "side_panel_right")
                leftHoles == HolesWithPurpose(left[1], "shelf_pin")
                rightHoles == HolesWithPurpose(right[1], "shelf_pin")
            IN  /\ Len(left) = 1 /\ Len(right) = 1
                /\ Len(leftHoles) = Len(rightHoles)
                /\ \A i \in 1..Len(leftHoles) :
                        /\ leftHoles[i].pos[2] = rightHoles[i].pos[2]
                        /\ leftHoles[i].pos[1] = rightHoles[i].pos[1]

C3_Witness ==
    \E a \in BuiltAssemblies :
        /\ a.config.features.shelves.adjustable.enabled
        /\ Len(HolesWithPurpose(ComponentsWithRole(a.components, "side_panel_right")[1],
                                "shelf_pin")) >= 4
        /\ Len(HolesWithPurpose(ComponentsWithRole(a.components, "side_panel_left")[1],
                                "shelf_pin")) >= 4


\* the width and depth C4 expects of a back-panel dado of configuration cfg
ExpectedBackDadoWidth(cfg) ==
    IF cfg.secondaryMaterial.backPanelThickness /= Undefined
    THEN cfg.secondaryMaterial.backPanelThickness[1]
    ELSE cfg.backPanel.thickness

ExpectedBackDadoDepth(cfg) ==
    IF cfg.backPanel.dadoDepth /= Undefined THEN cfg.backPanel.dadoDepth[1] ELSE mm(6)

\* components holds the four carcass panels, each with exactly one back-panel
\* dado of the expected width and depth
FourBackPanelDados(components, cfg) ==
    /\ \A role \in CarcassRoles : Len(ComponentsWithRole(components, role)) = 1
    /\ \A role \in CarcassRoles :
        LET dados == BackPanelDados(ComponentsWithRole(components, role)[1])
        IN  /\ Len(dados) = 1
            /\ dados[1].width = ExpectedBackDadoWidth(cfg)
            /\ dados[1].depth = ExpectedBackDadoDepth(cfg)

NoBackPanelDado(components) ==
    \A k \in 1..Len(components) :
        components[k].role \in CarcassRoles => BackPanelDados(components[k]) = <<>>

(* C4 *)
\* C4: when backPanel.type is 'inset', the carcass the builder generates (for
\* any material.thickness, valid or not) and every built Assembly carry exactly
\* one back-panel dado on each of the left, right, top and bottom panels, of
\* width secondaryMaterial.backPanelThickness when defined, else
\* backPanel.thickness, and of depth backPanel.dadoDepth, 6 mm by default.
C4_InsetDadoOnFourPanels ==
    config.backPanel.type = "inset" =>
        /\ FourBackPanelDados(generateCarcassWithFeatures(config), config)
        /\ \A a \in BuiltAssemblies : FourBackPanelDados(a.components, a.config)

C4_Witness ==
    \E a \in BuiltAssemblies :
        /\ a.config.backPanel.type = "inset"
        /\ a.config.secondaryMaterial.backPanelThickness = Undefined
        /\ a.config.backPanel.dadoDepth = Undefined
        /\ a.config.backPanel.thickness /= a.config.material.thickness
        /\ FourBackPanelDados(a.components, a.config)

(* C5 *)
\* C5: in every built Assembly, backPanel.type 'none' gives no back_panel and
\* no back-panel dado; 'applied' gives exactly one back_panel, of width
\* globalBounds.w and without features, and no back-panel dado; 'inset' gives
\* exactly one back_panel and one back-panel dado on each of the four carcass
\* panels; there is never more than one back_panel.
C5_BackPanelFollowsType ==
    \A a \in BuiltAssemblies :
        LET type == a.config.backPanel.type
            backPanels == ComponentsWithRole(a.components, "back_panel")
        IN  /\ Len(backPanels) <= 1
            /\ type = "none" =>
                    /\ Len(backPanels) = 0
                    /\ NoBackPanelDado(a.components)
            /\ type = "applied" =>
                    /\ Len(backPanels) = 1
                    /\ backPanels[1].dimensions[1] = a.config.globalBounds.w
                    /\ backPanels[1].features = <<>>
                    /\ NoBackPanelDado(a.components)
            /\ type = "inset" =>
                    /\ Len(backPanels) = 1
                    /\ \A role \in CarcassRoles :
                        Len(BackPanelDados(ComponentsWithRole(a.components, role)[1])) = 1

C5_Witness ==
    /\ result.called /\ ~result.outcome.threw
    /\ config.backPanel.type = "applied"
    /\ Len(ComponentsWithRole(result.outcome.assembly.components, "back_panel")) = 1
    /\ config.features.shelves.fixed.enabled
    /\ NoBackPanelDado(result.outcome.assembly.components)

(* C6 *)
\* C6: in every built Assembly, the k-th fixed-shelf dado of each side panel
\* is as wide as the k-th fixed_shelf component is thick (its
\* materialThickness), and the bottom dado of each drawer side is as wide as
\* the drawer_bottom of the same drawer is thick.
C6_DadoWidthMatchesInsertedPanel ==
    \A a \in BuiltAssemblies :
        LET shelves == ComponentsWithRole(a.components, "fixed_shelf")
            sides == ComponentsWithRole(a.components, "side_panel_left")
                     \o ComponentsWithRole(a.components, "side_panel_right")
            drawerSides == ComponentsWithRole(a.components, "drawer_side")
            drawerBottoms == ComponentsWithRole(a.components, "drawer_bottom")
        IN  /\ \A s \in 1..Len(sides) :
                LET dados == FixedShelfDados(sides[s])
                IN  /\ Len(dados) = Len(shelves)
                    /\ \A k \in 1..Len(dados) :
                        dados[k].width = shelves[k].materialThickness
            /\ Len(drawerSides) = 2 * Len(drawerBottoms)
            \* drawer n contributes drawerSides[2n - 1], drawerSides[2n]
            /\ \A n \in 1..Len(drawerBottoms) :
                \A side \in {drawerSides[2 * n - 1], drawerSides[2 * n]} :
                    LET dados == SlotsWithPurpose(side, "drawer_bottom")
                    IN  /\ Len(dados) = 1
                        /\ dados[1].width = drawerBottoms[n].materialThickness

C6_Witness ==
    \E a \in BuiltAssemblies :
        LET shelves == ComponentsWithRole(a.components, "fixed_shelf")
            bottoms == ComponentsWithRole(a.components, "drawer_bottom")
        IN  /\ Len(shelves) = 2
            /\ shelves[1].materialThickness /= a.config.material.thickness
            /\ Len(bottoms) = 2
            /\ bottoms[1].materialThickness /= a.config.material.thickness

(* C7 *)
\* C7: the top and the bottom panel are both w - 2t wide, for every
\* configuration; in every built Assembly, dados injected or not, that width
\* is interiorBounds.w.  w = 1000, t = 18 gives 964; t = 0 gives w; w = 1000,
\* t = 500 gives 0 and the configuration is invalid.
C7_TopBottomWidth ==
    LET w == config.globalBounds.w
        t == config.material.thickness
    IN  /\ generateTopPanel(config).dimensions[1] = w - 2 * t
        /\ generateBottomPanel(config).dimensions[1] = w - 2 * t
        /\ \A a \in BuiltAssemblies :
            \A role \in {"top_panel", "bottom_panel"} :
                LET panels == ComponentsWithRole(a.components, role)
                IN  /\ Len(panels) = 1
                    /\ panels[1].dimensions[1] = w - 2 * t
                    /\ panels[1].dimensions[1] = a.interiorBounds.w
        /\ (w = mm(1000) /\ t = mm(18)) => generateTopPanel(config).dimensions[1] = mm(964)
        /\ t = 0 => generateTopPanel(config).dimensions[1] = w
        /\ (w = mm(1000) /\ t = mm(500)) =>
                /\ generateTopPanel(config).dimensions[1] = 0
                /\ ~validateConfig(config).valid

C7_Witness ==
    \E a \in BuiltAssemblies :
        /\ a.config.globalBounds.w = mm(1000)
        /\ a.config.material.thickness = mm(18)
        /\ ComponentsWithRole(a.components, "top_panel")[1].features /= <<>>
        /\ ComponentsWithRole(a.components, "top_panel")[1].dimensions[1] = mm(964)
        /\ ComponentsWithRole(a.components, "bottom_panel")[1].dimensions[1] = mm(964)

(* C8 *)
\* C8: every built Assembly has interiorBounds = {w - 2t, h - 2t - toeKickHeight,
\* d}, toeKickHeight being features.toeKick.height when the toe kick is enabled
\* and 0 when it is disabled; 600 x 720 x 560 with t = 18 and a 100 mm toe kick
\* gives {564, 584, 560}.
C8_InteriorBounds ==
    \A a \in BuiltAssemblies :
        LET b == a.config.globalBounds
            t == a.config.material.thickness
            toeKick == a.config.features.toeKick
            toeKickHeight == IF toeKick.enabled THEN toeKick.height ELSE 0
        IN  /\ a.interiorBounds = [w |-> b.w - 2 * t,
                                   h |-> b.h - 2 * t - toeKickHeight,
                                   d |-> b.d]
            /\ (b = [w |-> mm(600), h |-> mm(720), d |-> mm(560)] /\ t = mm(18)
                /\ toeKick.enabled /\ toeKick.height = mm(100)) =>
                    a.interiorBounds = [w |-> mm(564), h |-> mm(584), d |-> mm(560)]

C8_Witness ==
    \E a \in BuiltAssemblies :
        /\ ~a.config.features.toeKick.enabled
        /\ a.config.features.toeKick.height = mm(100)
        /\ a.interiorBounds.h = a.config.globalBounds.h - 2 * a.config.material.thickness


\* the rectangle corner fillet number k (cornerIndex k - 1) was generated for
CornerOf(k) == RectCorners(rect.x, rect.y, rect.width, rect.height)[k]

\* the squared distance between two points
SquaredDistance(p, q) ==
    (p[1] - q[1]) * (p[1] - q[1]) + (p[2] - q[2]) * (p[2] - q[2])

\* the direction from corner k into the rectangle, along X and along Y
InwardX(k) == IF k \in {1, 4} THEN 1 ELSE -1
InwardY(k) == IF k \in {1, 2} THEN 1 ELSE -1

DogbonesReturned == dogbones /= <<>>

ProperRectangle == rect.width > 0 /\ rect.height > 0

(* C9 *)
\* C9: for a rectangle of positive width and height, generateRectangleDogbones
\* returns four fillets with cornerIndex 0, 1, 2, 3; each has radius
\* bitDiameter / 2 and its centre is its corner moved by exactly radius along X
\* and by exactly radius along Y towards the inside of the rectangle, which is
\* radius * sqrt(2) along the bisector (squared distance 2 * radius^2) and
\* leaves the circle tangent to both edges that meet in the corner.
C9_RectangleDogbones ==
    (DogbonesReturned /\ ProperRectangle) =>
        /\ Len(dogbones) = 4
        /\ \A k \in 1..4 :
            LET fillet == dogbones[k]
                corner == CornerOf(k)
            IN  /\ fillet.cornerIndex = k - 1
                /\ 2 * fillet.radius = rect.bitDiameter
                /\ fillet.center = <<corner[1] + InwardX(k) * fillet.radius,
                                     corner[2] + InwardY(k) * fillet.radius>>
                /\ SquaredDistance(fillet.center, corner)
                       = 2 * fillet.radius * fillet.radius
                \* tangent to the edges through the corner: the centre is one
                \* radius away from the line of each
                /\ Abs(fillet.center[1] - corner[1]) = fillet.radius
                /\ Abs(fillet.center[2] - corner[2]) = fillet.radius

C9_Witness ==
    /\ DogbonesReturned
    /\ ProperRectangle
    /\ rect.x < 0
    /\ rect.width /= rect.height
    /\ Len(dogbones) = 4
    /\ dogbones[3].center = <<rect.x + rect.width - dogbones[3].radius,
                              rect.y + rect.height - dogbones[3].radius>>

(* C10 *)
\* C10 as stated: for every fillet generated for a corner of a rectangle with
\* a bit of positive diameter, the corner lies on the relief circle: the
\* squared distance from the fillet's centre to its corner is radius^2.
C10_CornerOnReliefCircle ==
    (DogbonesReturned /\ ProperRectangle /\ rect.bitDiameter > 0) =>
        \A k \in 1..Len(dogbones) :
            SquaredDistance(dogbones[k].center, CornerOf(k))
                = dogbones[k].radius * dogbones[k].radius

\* The notched panel the exporter draws in this state
IsNotchCall == "notch" \in DOMAIN rect

NotchOutline ==
    rectangleWithNotchPath(rect.offsetX, rect.offsetY, rect.width, rect.height, rect.notch)

\* the corners generateNotchDogbones relieves in this state, in fillet order
RelievedCorners ==
    LET Positions(internalCorners) ==
            [k \in 1..Len(internalCorners) |-> internalCorners[k].pos]
        At(position) ==
            Positions(NotchInternalCorners(position[1], position[2], rect.notch.width,
                                           rect.notch.height, rect.notch.corner))
    IN  At(NotchPosition(rect.offsetX, rect.offsetY, rect.width, rect.height, rect.notch))

\* the turn a closed path makes at c coming from p and leaving for n:
\* 1 to the left, -1 to the right, 0 straight on
Turn(p, c, n) ==
    Sign((c[1] - p[1]) * (n[2] - c[2]) - (c[2] - p[2]) * (n[1] - c[1]))

TurnAt(path, i) ==
    Turn(path[((i + Len(path) - 2) % Len(path)) + 1], path[i], path[(i % Len(path)) + 1])

RECURSIVE SumOfTurns(_, _)
SumOfTurns(path, i) == IF i > Len(path) THEN 0 ELSE TurnAt(path, i) + SumOfTurns(path, i + 1)

\* The internal (concave) vertices of a closed outline: those where it turns
\* against its own sense of rotation, towards the material it encloses
ConcaveVertices(path) ==
    {path[i] : i \in {k \in 1..Len(path) : TurnAt(path, k) * SumOfTurns(path, 1) < 0}}

(* C11 *)
\* C11 as stated: for a corner notch, generateNotchDogbones returns exactly two
\* fillets of radius bitDiameter / 2, and the corner each of them relieves is
\* an internal (concave) corner of the outline of the notched panel.
C11_NotchDogbonesRelieveInternalCorners ==
    (IsNotchCall /\ dogbones /= <<>>) =>
        /\ Len(dogbones) = 2
        /\ \A k \in 1..Len(dogbones) :
            /\ 2 * dogbones[k].radius = rect.bitDiameter
            /\ RelievedCorners[k] \in ConcaveVertices(NotchOutline)

GroupRank(role) ==
    CASE role = "side_panel_left" -> 1
      [] role = "side_panel_right" -> 2
      [] role = "top_panel" -> 3
      [] role = "bottom_panel" -> 4
      [] role = "back_panel" -> 5
      [] role = "toe_kick_panel" -> 6
      [] role = "adjustable_shelf" -> 7
      [] role = "fixed_shelf" -> 8
      [] role \in {"drawer_front", "drawer_side", "drawer_back", "drawer_bottom"} -> 9
      [] OTHER -> 0

\* the ids of the five parts of the drawer with 1-based number k
DrawerPartIds(k) ==
    <<"drawer_front_" \o ToString(k), "drawer_side_left_" \o ToString(k),
      "drawer_side_right_" \o ToString(k), "drawer_back_" \o ToString(k),
      "drawer_bottom_" \o ToString(k)>>

DrawerParts(components) ==
    LET IsDrawerPart(c) == GroupRank(c.role) = 9
    IN  SelectSeq(components, IsDrawerPart)

InGroupOrder(components) ==
    /\ Len(components) >= 4
    /\ \A i \in 1..4 : GroupRank(components[i].role) = i
    /\ \A i \in DOMAIN components : GroupRank(components[i].role) /= 0
    /\ \A i, j \in DOMAIN components :
           i < j => GroupRank(components[i].role) <= GroupRank(components[j].role)
    /\ \A r \in CarcassRoles \cup {"back_panel", "toe_kick_panel"} :
           Len(ComponentsWithRole(components, r)) <= 1
    /\ LET parts == DrawerParts(components)
       IN  \A i \in DOMAIN parts :
               parts[i].id = DrawerPartIds(((i - 1) \div 5) + 1)[((i - 1) % 5) + 1]

\* C13: in every Assembly returned by buildAssembly the components come in
\* the fixed group order: left side, right side, top, bottom; then the back
\* panel if any; then the toe kick panel if any; then the adjustable shelves
\* followed by the fixed shelves; then the drawer components, drawer by drawer
\* in index order.  No component of a later group precedes one of an earlier
\* group.
C13_ComponentGroupOrder ==
    \A a \in BuiltAssemblies : InGroupOrder(a.components)

\* an assembly with every group present: back panel, toe kick panel, both
\* kinds of shelf and two drawers
C13_Witness ==
    /\ result.called
    /\ ~result.outcome.threw
    /\ \A r \in {"back_panel", "toe_kick_panel", "adjustable_shelf", "fixed_shelf"} :
           Len(ComponentsWithRole(result.outcome.assembly.components, r)) >= 1
    /\ Len(DrawerParts(result.outcome.assembly.components)) = 10

(* C14 *)
ConflictWarning ==
    "Both shelves and drawers are enabled. "
    \o "Shelf pin holes will be generated but may interfere with drawer slides."

BothShelvesAndDrawers(cfg) ==
    cfg.features.shelves.adjustable.enabled /\ cfg.features.drawers.enabled

\* C14: the validation of the current config has valid == TRUE exactly when
\* its errors list is empty; errors is the concatenation of the carcass, back
\* panel, shelf and drawer validators' lists, in that order and each of them
\* whole; adjustable shelves enabled together with drawers gives exactly one
\* warning, and no error beyond the four validators' own, and no warning is
\* given otherwise.
C14_ValidIffNoErrors ==
    hook /= NotMounted =>
        /\ hook.validation.valid <=> (hook.validation.errors = <<>>)
        /\ hook.validation.errors =
               validateCarcassConfig(config) \o validateBackPanelConfig(config)
               \o validateShelfConfig(config) \o validateDrawerConfig(config)
        /\ hook.validation.warnings =
               IF BothShelvesAndDrawers(config) THEN <<ConflictWarning>> ELSE <<>>
        /\ hook.validation = validateConfig(config)

\* a valid configuration with adjustable shelves and drawers both enabled
C14_Witness ==
    /\ hook /= NotMounted
    /\ BothShelvesAndDrawers(config)
    /\ hook.validation.valid
    /\ hook.validation.warnings = <<ConflictWarning>>
    /\ hook.assembly /= Null

(* C15 *)
\* the height the even split of the interior leaves for one drawer box: the
\* front height less the 25 mm clearance
SplitBoxHeight(cfg) ==
    calculateDrawerDimensions(cfg, 0, cfg.features.drawers.count).frontHeight - mm(25)

DrawerTooLow(cfg) ==
    /\ cfg.features.drawers.enabled
    /\ cfg.features.drawers.count > 0
    /\ SplitBoxHeight(cfg) < DRAWER_DEFAULTS.MIN_HEIGHT

\* C15: whenever the config has drawers enabled with count > 0 and the
\* per-drawer height left by the even split of the interior height (front
\* height minus the 25 mm box clearance) is below the 50 mm minimum, the
\* validation reports an error and valid is false.
C15_MinimumDrawerHeightEnforced ==
    (hook /= NotMounted /\ DrawerTooLow(config)) =>
        /\ ~hook.validation.valid
        /\ hook.validation.errors /= <<>>
        /\ hook.assembly = Null

(* C16 *)
InsetDistance(cfg) ==
    OrElse(cfg.backPanel.insetDistance, BACK_PANEL_DEFAULTS.INSET_DISTANCE)

\* the thickness the back panel generator uses
UsedBackPanelThickness(cfg) ==
    OrElse(cfg.secondaryMaterial.backPanelThickness, cfg.backPanel.thickness)

InsetBackPanelFits(components, cfg) ==
    LET d == cfg.globalBounds.d
        back == ComponentsWithRole(components, "back_panel")
        left == ComponentsWithRole(components, "side_panel_left")[1]
    IN  /\ Len(back) = 1
        /\ back[1].dimensions[3] = UsedBackPanelThickness(cfg)
        /\ back[1].position[3] >= 0
        /\ back[1].position[3] + back[1].dimensions[3] = d - InsetDistance(cfg)
        /\ d - InsetDistance(cfg) <= d
        /\ \A k \in DOMAIN BackPanelDados(left) :
               /\ BackPanelDados(left)[k].path[1][1] >= 0
               /\ BackPanelDados(left)[k].path[1][1] <= d

\* C16: for every configuration that passes validateConfig with
\* backPanel.type "inset", the inset back panel fits within the cabinet
\* depth: with the thickness the generator uses
\* (secondaryMaterial.backPanelThickness when defined, else
\* backPanel.thickness), position z >= 0, position z + thickness =
\* globalBounds.d - insetDistance <= globalBounds.d, and the dado centreline
\* lies within [0, globalBounds.d].
C16_InsetBackPanelFitsDepth ==
    \A a \in BuiltAssemblies :
        a.config.backPanel.type = "inset" => InsetBackPanelFits(a.components, a.config)

(* C17 *)
AssemblyReturned == result.called /\ ~result.outcome.threw

\* C17: outputs never alias inputs.  A buildAssembly call leaves the
\* caller's configuration as it was; no field of the returned Assembly is
\* the caller's configuration object; and a step in which the caller changes
\* its configuration after the build leaves every field read from the
\* returned Assembly as it was.
C17_OutputsNeverAliasInputs ==
    [][/\ (result' /= result => config' = config)
       /\ (AssemblyReturned /\ result' = result) =>
              /\ \A k \in DOMAIN result.outcome.assembly :
                     result.outcome.assembly[k] /= CallerConfig
              /\ ReadObject(result.outcome.assembly)'
                     = ReadObject(result.outcome.assembly)]_vars

(* C18 *)
\* the bottom of the opening of the drawer with 0-based index i
OpeningBottom(cfg, i, frontHeight) ==
    ToeKickHeight(cfg) + cfg.material.thickness + i * (frontHeight + mm(3))

FrontOverlapsInX(front, cfg) ==
    LET t == cfg.material.thickness
        overlay == cfg.features.drawers.overlayAmount
    IN  /\ front.position[1] = t - overlay
        /\ front.position[1] + front.dimensions[1] = cfg.globalBounds.w - t + overlay

FrontOverlapsInY(front, cfg, i) ==
    LET overlay == cfg.features.drawers.overlayAmount
        frontHeight ==
            calculateDrawerDimensions(cfg, i, cfg.features.drawers.count).frontHeight
    IN  /\ front.position[2] = OpeningBottom(cfg, i, frontHeight) - overlay
        /\ front.position[2] + front.dimensions[2]
               = OpeningBottom(cfg, i, frontHeight) + frontHeight + overlay

\* C18: every drawer front overlaps its carcass opening by overlayAmount on
\* all four sides: for drawer i, whose opening is [t, w - t] in X and
\* [openingBottom_i, openingBottom_i + frontHeight] in Y, the front extends
\* over [t - overlay, w - t + overlay] in X and over
\* [openingBottom_i - overlay, openingBottom_i + frontHeight + overlay] in Y.
C18_DrawerFrontOverlapsOpening ==
    \A a \in BuiltAssemblies :
        LET fronts == ComponentsWithRole(a.components, "drawer_front")
        IN  \A k \in DOMAIN fronts :
                /\ FrontOverlapsInX(fronts[k], a.config)
                /\ FrontOverlapsInY(fronts[k], a.config, k - 1)

(* C19 *)
\* the shelf pin holes of a side panel drilled at X = x, in the order
\* generated
ShelfPinColumn(panel, x) ==
    LET Keep(f) == f.type = "hole" /\ f.purpose = "shelf_pin" /\ f.pos[1] = x
    IN  SelectSeq(panel.features, Keep)

System32Column(column, cfg) ==
    /\ Len(column) >= 1
    /\ column[1].pos[2] = ToeKickHeight(cfg) + cfg.material.thickness + mm(50)
    /\ \A k \in 1..(Len(column) - 1) : column[k + 1].pos[2] - column[k].pos[2] = mm(32)
    /\ \A k \in DOMAIN column :
           column[k].pos[2] <= cfg.globalBounds.h - cfg.material.thickness - mm(50)

System32Panel(panel, cfg) ==
    LET adjustable == cfg.features.shelves.adjustable
        frontX == OrElse(adjustable.frontSetback, mm(37))
        rearX == cfg.globalBounds.d - OrElse(adjustable.rearSetback, mm(37))
        holes == HolesWithPurpose(panel, "shelf_pin")
    IN  /\ \A k \in DOMAIN holes :
               /\ holes[k].diameter = mm(5)
               /\ holes[k].depth = mm(10)
               /\ holes[k].pos[1] \in {frontX, rearX}
        /\ System32Column(ShelfPinColumn(panel, frontX), cfg)
        /\ System32Column(ShelfPinColumn(panel, rearX), cfg)

FixedShelfDadoDepth(cfg) ==
    OrElse(cfg.features.shelves.fixed.dadoDepth, DADO_DEFAULTS.MIN_DEPTH)

\* both side panels carry one dado per position, pairwise at the same Y
SameDadosOnBothSides(left, right, positions) ==
    /\ Len(FixedShelfDados(left)) = Len(positions)
    /\ Len(FixedShelfDados(right)) = Len(positions)
    /\ \A k \in DOMAIN positions :
           FixedShelfDados(left)[k].path[1][2] = FixedShelfDados(right)[k].path[1][2]

ShelfSpansDados(shelf, cfg) ==
    LET t == cfg.material.thickness
    IN  /\ shelf.position[1] = t - FixedShelfDadoDepth(cfg)
        /\ shelf.position[1] + shelf.dimensions[1]
               = cfg.globalBounds.w - t + FixedShelfDadoDepth(cfg)

\* the shelf's vertical extent is the dado's, the slot path being the
\* centreline of a slot of the given width (compared doubled, to stay within
\* the integers)
ShelfFillsDado(shelf, dado) ==
    /\ 2 * shelf.position[2] = 2 * dado.path[1][2] - dado.width
    /\ 2 * (shelf.position[2] + shelf.dimensions[2]) = 2 * dado.path[1][2] + dado.width

\* C20: each fixed shelf seats in its two dados: for every configured
\* position both side panels carry a dado at the same Y, the fixed_shelf
\* component spans X from t - dadoDepth to w - t + dadoDepth, and the shelf's
\* vertical extent [position y, position y + shelfThickness] coincides with
\* the dado's vertical extent [dadoY - width/2, dadoY + width/2].
C20_FixedShelfSeatsInDados ==
    \A a \in BuiltAssemblies :
        a.config.features.shelves.fixed.enabled =>
            LET left == ComponentsWithRole(a.components, "side_panel_left")[1]
                right == ComponentsWithRole(a.components, "side_panel_right")[1]
                shelves == ComponentsWithRole(a.components, "fixed_shelf")
                positions == a.config.features.shelves.fixed.positions
            IN  /\ Len(shelves) = Len(positions)
                /\ SameDadosOnBothSides(left, right, positions)
                /\ \A k \in DOMAIN shelves :
                       /\ ShelfSpansDados(shelves[k], a.config)
                       /\ ShelfFillsDado(shelves[k], FixedShelfDados(left)[k])
                       /\ ShelfFillsDado(shelves[k], FixedShelfDados(right)[k])

(* C21 *)
\* the hole, extended by its radius, reaches into the notch rectangle of
\* width toeKick.depth and height toeKick.height at the panel's bottom-front
\* corner (compared doubled, to stay within the integers)
CollidesWithToeKickNotch(hole, cfg) ==
    /\ 2 * hole.pos[1] - hole.diameter < 2 * cfg.features.toeKick.depth
    /\ 2 * hole.pos[1] + hole.diameter > 0
    /\ 2 * hole.pos[2] - hole.diameter < 2 * cfg.features.toeKick.height
    /\ 2 * hole.pos[2] + hole.diameter > 0

SlidesInNotchedPanels(cfg) ==
    /\ cfg.features.toeKick.enabled
    /\ cfg.features.drawers.enabled
    /\ cfg.predrills.slides.enabled

\* C21: in every assembly built from a valid configuration with toe kick,
\* drawers and slide pre-drills enabled, no slide_mount hole of a side panel
\* collides with the panel's toe-kick notch.
C21_SlideHolesClearToeKickNotch ==
    \A a \in BuiltAssemblies :
        SlidesInNotchedPanels(a.config) =>
            \A role \in {"side_panel_left", "side_panel_right"} :
                LET holes == HolesWithPurpose(ComponentsWithRole(a.components, role)[1],
                                              "slide_mount")
                IN  \A k \in DOMAIN holes : ~CollidesWithToeKickNotch(holes[k], a.config)

(* C22 *)
NestPartsReturned == nested /= NotNested /\ nested.call = "nestParts"

\* the components of the nested assembly that are panels
NestedPanels ==
    LET IsPanel(c) == c.layer = "OUTSIDE_CUT"
    IN  SelectSeq(nesting.assembly.components, IsPanel)

\* the parts placed on the sheets of a nesting result, sheet after sheet
PlacedParts(sheets) ==
    Flatten([k \in DOMAIN sheets |->
                [p \in DOMAIN sheets[k].placements |-> sheets[k].placements[p].part]])

TimesIn(parts, id) == Cardinality({k \in DOMAIN parts : parts[k].instanceId = id})

\* the flat face of component c fits the usable area of the bed as given,
\* or, rotation allowed, turned by 90 degrees
FitsTheBed(c, nc) ==
    LET usableWidth == nc.bedSize[1] - 2 * nc.edgeMargin
        usableHeight == nc.bedSize[2] - 2 * nc.edgeMargin
        flat == getFlatDimensions(c)
    IN  \/ flat.width <= usableWidth /\ flat.height <= usableHeight
        \/ /\ nc.allowRotation
           /\ flat.height <= usableWidth
           /\ flat.width <= usableHeight

\* C22: nestParts returns, and its result partitions the parts: every
\* component with layer OUTSIDE_CUT appears exactly once, as a placement on
\* one sheet or in unfittedParts, and nothing else appears; a part is in
\* unfittedParts exactly when it fits the usable area of the bed neither as
\* given nor, with allowRotation, rotated by 90 degrees; every other part is
\* placed on some sheet.
C22_NestPartsPartitionsTheParts ==
    NestPartsReturned =>
        LET placed == PlacedParts(nested.value.sheets)
            unfitted == nested.value.unfittedParts
            panels == NestedPanels
        IN  /\ Len(placed) + Len(unfitted) = Len(panels)
            /\ \A k \in DOMAIN panels :
                   /\ TimesIn(placed, panels[k].id) + TimesIn(unfitted, panels[k].id) = 1
                   /\ TimesIn(unfitted, panels[k].id) = 1
                          <=> ~FitsTheBed(panels[k], nesting.config)
                   /\ TimesIn(placed, panels[k].id) = 1
                          <=> FitsTheBed(panels[k], nesting.config)
            /\ nested.value.sheetCount = Len(nested.value.sheets)
            /\ \A k \in DOMAIN nested.value.sheets :
                   Len(nested.value.sheets[k].placements) >= 1

\* a nesting that needed more than one sheet and left a part unfitted
C22_Witness ==
    /\ NestPartsReturned
    /\ Len(nested.value.sheets) >= 2
    /\ Len(nested.value.unfittedParts) >= 1

(* C27, C28 *)
\* the sheets packSheet has filled: the one of a direct call, or those of the
\* calls nestParts made
PackedSheets ==
    IF nested = NotNested THEN <<>>
    ELSE IF nested.call = "packSheet" THEN <<nested.value.sheet>>
    ELSE nested.value.sheets

InsideUsableArea(placement, nc) ==
    /\ nc.edgeMargin <= placement.x
    /\ placement.x + placement.part.width <= nc.bedSize[1] - nc.edgeMargin
    /\ nc.edgeMargin <= placement.y
    /\ placement.y + placement.part.height <= nc.bedSize[2] - nc.edgeMargin

\* C27: after packSheet, every placement lies wholly inside the usable area
\* of the sheet, by its placed width and height: edgeMargin <= x,
\* x + width <= bedWidth - edgeMargin, edgeMargin <= y and
\* y + height <= bedHeight - edgeMargin; a rotated placement exists only when
\* allowRotation is true.
C27_PlacementsInsideUsableArea ==
    \A k \in DOMAIN PackedSheets :
        \A p \in DOMAIN PackedSheets[k].placements :
            /\ InsideUsableArea(PackedSheets[k].placements[p], nesting.config)
            /\ PackedSheets[k].placements[p].part.rotated => nesting.config.allowRotation

\* a direct call of packSheet, with an edge margin, that placed a part
\* rotated, a part on a second shelf, and left a part over
C27_Witness ==
    /\ nested /= NotNested
    /\ nested.call = "packSheet"
    /\ nesting.config.edgeMargin > 0
    /\ Len(nested.value.sheet.shelves) >= 2
    /\ Len(nested.value.overflow) >= 1
    /\ \E p \in DOMAIN nested.value.sheet.placements :
           nested.value.sheet.placements[p].part.rotated

\* the placements of a sheet standing on the shelf, in the order placed
OnShelf(sheet, shelf) ==
    LET Stands(placement) == placement.y = shelf.y
    IN  SelectSeq(sheet.placements, Stands)

\* two placements kept apart by at least spacing, along X or along Y
Separated(a, b, spacing) ==
    \/ a.x + a.part.width + spacing <= b.x
    \/ b.x + b.part.width + spacing <= a.x
    \/ a.y + a.part.height + spacing <= b.y
    \/ b.y + b.part.height + spacing <= a.y

ShelvesStacked(sheet, nc) ==
    \A s \in DOMAIN sheet.shelves :
        sheet.shelves[s].y =
            IF s = 1 THEN nc.edgeMargin
            ELSE sheet.shelves[s - 1].y + sheet.shelves[s - 1].height + nc.partSpacing

ShelfRowsSpaced(sheet, nc) ==
    \A s \in DOMAIN sheet.shelves :
        /\ \A q \in DOMAIN OnShelf(sheet, sheet.shelves[s]) :
               /\ OnShelf(sheet, sheet.shelves[s])[q].part.height <= sheet.shelves[s].height
               /\ q > 1 =>
                      OnShelf(sheet, sheet.shelves[s])[q].x =
                          OnShelf(sheet, sheet.shelves[s])[q - 1].x
                          + OnShelf(sheet, sheet.shelves[s])[q - 1].part.width
                          + nc.partSpacing

\* C28: after packSheet with partSpacing >= 0, no two placements overlap and
\* any two are at least partSpacing apart; consecutive parts on a shelf are
\* exactly partSpacing apart in X, every part on a shelf is no higher than the
\* shelf, and each shelf starts at the previous shelf's y + height +
\* partSpacing.
C28_PlacementsSpacedApart ==
    nesting /= NoNesting /\ nesting.config.partSpacing >= 0 =>
        \A k \in DOMAIN PackedSheets :
            /\ \A p, q \in DOMAIN PackedSheets[k].placements :
                   p < q => Separated(PackedSheets[k].placements[p],
                                      PackedSheets[k].placements[q],
                                      nesting.config.partSpacing)
            /\ ShelfRowsSpaced(PackedSheets[k], nesting.config)
            /\ ShelvesStacked(PackedSheets[k], nesting.config)
            /\ \A p \in DOMAIN PackedSheets[k].placements :
                   \E s \in DOMAIN PackedSheets[k].shelves :
                       PackedSheets[k].placements[p].y = PackedSheets[k].shelves[s].y

\* a direct call of packSheet, with a part spacing, that put two parts on one
\* shelf and opened a second shelf
C28_Witness ==
    /\ nested /= NotNested
    /\ nested.call = "packSheet"
    /\ nesting.config.partSpacing > 0
    /\ Len(nested.value.sheet.shelves) >= 2
    /\ \E s \in DOMAIN nested.value.sheet.shelves :
           Len(OnShelf(nested.value.sheet, nested.value.sheet.shelves[s])) >= 2

(* C23 *)
\* the place of a feature among those generateCarcassWithFeatures adds to a
\* side panel: shelf-pin holes, runner holes, fixed-shelf dados, back-panel
\* dado; 0 for a feature it never adds
InjectedRank(f) ==
    IF f.type = "hole"
    THEN (IF f.purpose = "shelf_pin" THEN 1
          ELSE IF f.purpose = "shelf_runner" THEN 2 ELSE 0)
    ELSE IF f.type = "slot" /\ f.purpose = "dado"
    THEN (IF RunsAlongX(f) THEN 3 ELSE 4)
    ELSE 0

\* the features of final that come after those of base
AddedFeatures(base, final) ==
    SubSeq(final.features, Len(base.features) + 1, Len(final.features))

\* final is base with features appended and nothing else changed
KeepsBasePanel(base, final) ==
    /\ final.id = base.id
    /\ final.dimensions = base.dimensions
    /\ final.position = base.position
    /\ Len(final.features) >= Len(base.features)
    /\ SubSeq(final.features, 1, Len(base.features)) = base.features

AddedInOrder(added) ==
    /\ \A i \in DOMAIN added : InjectedRank(added[i]) >= 1
    /\ \A i, j \in DOMAIN added :
           i < j => InjectedRank(added[i]) <= InjectedRank(added[j])

RankCount(added, rank) ==
    Cardinality({i \in DOMAIN added : InjectedRank(added[i]) = rank})

SidePanelAdditive(base, final, cfg) ==
    /\ KeepsBasePanel(base, final)
    /\ AddedInOrder(AddedFeatures(base, final))
    /\ RankCount(AddedFeatures(base, final), 1)
           = Len(IF cfg.features.shelves.adjustable.enabled
                 THEN generateSidePanelShelfHoles(cfg, "left") ELSE <<>>)
    /\ RankCount(AddedFeatures(base, final), 2)
           = Len(generateSidePanelRunnerHoles(cfg, "left"))
    /\ RankCount(AddedFeatures(base, final), 3)
           = Len(generateSidePanelFixedShelfDados(cfg, "left"))
    /\ RankCount(AddedFeatures(base, final), 4) = (IF requiresDados(cfg) THEN 1 ELSE 0)

HorizontalPanelAdditive(base, final, cfg) ==
    /\ KeepsBasePanel(base, final)
    /\ Len(AddedFeatures(base, final)) = (IF requiresDados(cfg) THEN 1 ELSE 0)
    /\ \A i \in DOMAIN AddedFeatures(base, final) :
           /\ AddedFeatures(base, final)[i].type = "slot"
           /\ AddedFeatures(base, final)[i].purpose = "dado"

InjectionAdditive(components, cfg) ==
    /\ \A role \in CarcassRoles : Len(ComponentsWithRole(components, role)) = 1
    /\ SidePanelAdditive(generateLeftSidePanel(cfg),
                         ComponentsWithRole(components, "side_panel_left")[1], cfg)
    /\ SidePanelAdditive(generateRightSidePanel(cfg),
                         ComponentsWithRole(components, "side_panel_right")[1], cfg)
    /\ HorizontalPanelAdditive(generateTopPanel(cfg),
                               ComponentsWithRole(components, "top_panel")[1], cfg)
    /\ HorizontalPanelAdditive(generateBottomPanel(cfg),
                               ComponentsWithRole(components, "bottom_panel")[1], cfg)

\* C23: feature injection is additive.  Each side panel of
\* generateCarcassWithFeatures has the base panel's own features (toe-kick
\* notch, assembly pre-drills, slide pre-drills) as an unchanged prefix,
\* followed by the shelf-pin holes, the runner holes, the fixed-shelf dados
\* and the back-panel dado in that order; the top and bottom panels keep their
\* base features before the appended dado; no feature is removed or replaced
\* and id, dimensions and position are those of the base panel.
C23_FeatureInjectionAdditive ==
    \A a \in BuiltAssemblies : InjectionAdditive(a.components, a.config)

\* a built cabinet whose left side panel carries a notch and slide pre-drills
\* of its own and received runner holes, fixed-shelf dados and a back-panel
\* dado, with or without shelf-pin holes
C23_Witness ==
    \E a \in BuiltAssemblies :
        LET base == generateLeftSidePanel(a.config)
            final == ComponentsWithRole(a.components, "side_panel_left")[1]
        IN  /\ \E i \in DOMAIN base.features : base.features[i].type = "notch"
            /\ \E i \in DOMAIN base.features :
                   base.features[i].type = "hole" /\ base.features[i].purpose = "slide_mount"
            /\ \A rank \in 1..4 : RankCount(AddedFeatures(base, final), rank) >= 1

(* C25 *)
RunnerConfigOf(cfg) == cfg.features.shelves.runners

HolesPerRunnerOf(cfg) ==
    OrElse(RunnerConfigOf(cfg).holesPerRunner, SHELF_RUNNER_DEFAULTS.HOLES_PER_RUNNER)

FrontSetbackOf(cfg) ==
    OrElse(RunnerConfigOf(cfg).frontSetback, SHELF_RUNNER_DEFAULTS.FRONT_SETBACK)

RearSetbackOf(cfg) ==
    OrElse(RunnerConfigOf(cfg).rearSetback, SHELF_RUNNER_DEFAULTS.REAR_SETBACK)

\* a coordinate that is a number, neither NaN nor an infinity
IsNumber(x) ==
    ToString(x) \notin {ToString([isNaN |-> TRUE]), ToString([isInfinity |-> TRUE])}

\* the shelf_runner holes of the panel at height y, in the order drilled
RunnerHolesAt(panel, y) ==
    LET AtY(hole) == hole.pos[2] = y
    IN  SelectSeq(HolesWithPurpose(panel, "shelf_runner"), AtY)

\* the N holes of one runner: numbers, the first at frontSetback, evenly
\* spaced, the last (N >= 2) at d - rearSetback
RunnerRowWellFormed(row, cfg) ==
    /\ Len(row) = HolesPerRunnerOf(cfg)
    /\ \A i \in DOMAIN row : IsNumber(row[i].pos[1])
    /\ row[1].pos[1] = FrontSetbackOf(cfg)
    /\ \A i \in DOMAIN row :
           (i >= 3) => row[i].pos[1] - row[i - 1].pos[1] = row[2].pos[1] - row[1].pos[1]
    /\ Len(row) >= 2 => row[Len(row)].pos[1] = cfg.globalBounds.d - RearSetbackOf(cfg)

RunnerHolesWellFormed(a) ==
    LET cfg == a.config
        left == ComponentsWithRole(a.components, "side_panel_left")[1]
        right == ComponentsWithRole(a.components, "side_panel_right")[1]
    IN  /\ HolesWithPurpose(left, "shelf_runner") = HolesWithPurpose(right, "shelf_runner")
        /\ Len(HolesWithPurpose(left, "shelf_runner"))
               = HolesPerRunnerOf(cfg) * Len(RunnerConfigOf(cfg).positions)
        /\ \A k \in DOMAIN RunnerConfigOf(cfg).positions :
               RunnerRowWellFormed(
                   RunnerHolesAt(left, ToeKickHeight(cfg) + cfg.material.thickness
                                           + RunnerConfigOf(cfg).positions[k]),
                   cfg)

\* C25: for every valid configuration with runners enabled, every runner
\* position p and every holesPerRunner N >= 1, each side panel receives
\* exactly N shelf_runner holes at Y = toeKickHeight + t + p whose X values
\* are well-defined numbers, evenly spaced, the first at frontSetback and
\* (for N >= 2) the last at globalBounds.d - rearSetback; left and right
\* panels receive identical holes.
C25_RunnerHolesEvenlySpaced ==
    \A a \in BuiltAssemblies :
        RunnerConfigOf(a.config).enabled /\ HolesPerRunnerOf(a.config) >= 1
            => RunnerHolesWellFormed(a)

\* the same, for runners of two holes or more
C25_RunnerHolesEvenlySpacedFromTwoHoles ==
    \A a \in BuiltAssemblies :
        RunnerConfigOf(a.config).enabled /\ HolesPerRunnerOf(a.config) >= 2
            => RunnerHolesWellFormed(a)

\* a built cabinet with two runners of three holes
C25_Witness ==
    \E a \in BuiltAssemblies :
        /\ RunnerConfigOf(a.config).enabled
        /\ HolesPerRunnerOf(a.config) = 3
        /\ Len(RunnerConfigOf(a.config).positions) = 2
        /\ RunnerHolesWellFormed(a)

-----------------------------------------------------------------------------
(* Assembly pre-drills along one edge, called on their own                 *)

\* the edge lengths and the distances from the edge the panels are drilled
\* at; every span between the end holes divides into its intervals without a
\* remainder in the model's unit, so a step of the model is the source's
\* availableLength / numIntervals
EdgeLengths == {mm(40), mm(50), mm(60), mm(250), mm(450), mm(560), mm(650), mm(1050)}

EdgeDistances == {mm(9), mm(109)}

\* the AssemblyPredrillConfig values
PredrillConfigs ==
    {[DEFAULT_ASSEMBLY_PREDRILLS EXCEPT
        !.enabled = en, !.countersink = cs, !.screwSpacing = sp, !.edgeDistance = ed] :
        en \in BOOLEAN, cs \in BOOLEAN,
        sp \in {Undefined, Some(mm(100)), Some(mm(150))},
        ed \in {Undefined, Some(mm(25)), Some(mm(30))}}

PredrillInit ==
    /\ invoked \in [fn : {"generateAssemblyPredrillsForEdge"},
                    edgeLength : EdgeLengths, edgeDistance : EdgeDistances,
                    config : PredrillConfigs]
    /\ returned = NotReturned
    /\ config = DEFAULT_ASSEMBLY_CONFIG
    /\ clock = 0
    /\ hook = NotMounted
    /\ result = NotCalled
    /\ rect = NoRect
    /\ dogbones = <<>>
    /\ nesting = NoNesting
    /\ nested = NotNested

\* generateAssemblyPredrillsForEdge(edgeLength, edgeDistance, config)
GenerateAssemblyPredrillsForEdge ==
    /\ invoked /= NotInvoked
    /\ invoked.fn = "generateAssemblyPredrillsForEdge"
    /\ returned' = [value |-> generateAssemblyPredrillsForEdge(
                                  invoked.edgeLength, invoked.edgeDistance,
                                  invoked.config)]
    /\ UNCHANGED <<config, clock, hook, result, rect, dogbones, nesting, nested, invoked>>

PredrillNext == GenerateAssemblyPredrillsForEdge

PredrillSpec == PredrillInit /\ [][PredrillNext]_vars

(* C24 *)
PredrillsReturned ==
    /\ invoked /= NotInvoked
    /\ invoked.fn = "generateAssemblyPredrillsForEdge"
    /\ returned /= NotReturned

\* the pilot holes among the returned features, in the order drilled
PilotHoles ==
    LET IsPilot(f) == f.type = "hole"
    IN  SelectSeq(returned.value, IsPilot)

EdgeOffsetOf(pc) == OrElse(pc.edgeDistance, ASSEMBLY_PREDRILL_DEFAULTS.EDGE_DISTANCE)

ScrewSpacingOf(pc) == OrElse(pc.screwSpacing, ASSEMBLY_PREDRILL_DEFAULTS.SCREW_SPACING)

\* the claim's precondition: an enabled config and an edge no shorter than
\* twice the edge offset
EdgeTakesPredrills ==
    /\ PredrillsReturned
    /\ invoked.config.enabled
    /\ invoked.edgeLength >= 2 * EdgeOffsetOf(invoked.config)

\* first hole at edgeOffset, last at edgeLength - edgeOffset, equal steps
AnchoredAndEven(holes) ==
    /\ Len(holes) >= 2
    /\ holes[1].pos[1] = EdgeOffsetOf(invoked.config)
    /\ holes[Len(holes)].pos[1] = invoked.edgeLength - EdgeOffsetOf(invoked.config)
    /\ \A i \in 2..Len(holes) :
           holes[i].pos[1] - holes[i - 1].pos[1] = holes[2].pos[1] - holes[1].pos[1]

StepsWithinScrewSpacing(holes) ==
    \A i \in 2..Len(holes) :
        holes[i].pos[1] - holes[i - 1].pos[1] <= ScrewSpacingOf(invoked.config)

\* C24: for an enabled assembly pre-drill config and an edge with
\* edgeLength >= 2 * edgeOffset, generateAssemblyPredrillsForEdge places the
\* first pilot hole at edgeOffset and the last at edgeLength - edgeOffset,
\* spaces the holes evenly, and the distance between consecutive holes is no
\* larger than the configured screwSpacing.
C24_PredrillsAnchoredWithinSpacing ==
    EdgeTakesPredrills =>
        /\ AnchoredAndEven(PilotHoles)
        /\ StepsWithinScrewSpacing(PilotHoles)

\* the part of it that the generator does keep: the anchoring and the even
\* steps
C24_PredrillsAnchoredAndEven ==
    EdgeTakesPredrills => AnchoredAndEven(PilotHoles)

\* the steps are never shorter than screwSpacing once the span between the
\* end holes is at least screwSpacing
C24_StepsAtLeastScrewSpacing ==
    /\ EdgeTakesPredrills
    /\ invoked.edgeLength - 2 * EdgeOffsetOf(invoked.config) >= ScrewSpacingOf(invoked.config)
    => \A i \in 2..Len(PilotHoles) :
           PilotHoles[i].pos[1] - PilotHoles[i - 1].pos[1] >= ScrewSpacingOf(invoked.config)

-----------------------------------------------------------------------------
(* applyDogbonesToPath, called on its own (src/src/lib/geometry/index.ts)  *)

RECURSIVE ApplyDogbonesLoop(_, _, _)
\* for (let i = 0; i < path.length; i++): the fillets pushed from i on
ApplyDogbonesLoop(i, path, bitRadius) ==
    IF ~(i < Len(path)) THEN <<>>
    ELSE
        LET prev == path[((i + Len(path) - 1) % Len(path)) + 1]
            curr == path[i + 1]
            next == path[((i + 1) % Len(path)) + 1]
        IN  (IF isInternalCorner(prev, curr, next)
             THEN <<[center |-> calculateDogboneCenter(curr, bitRadius, prev, next,
                                                       "diagonal"),
                     radius |-> bitRadius,
                     cornerIndex |-> i]>>
             ELSE <<>>)
            \o ApplyDogbonesLoop(i + 1, path, bitRadius)

applyDogbonesToPath(path, bitDiameter) ==
    IF Len(path) < 3 THEN [path |-> path, dogbones |-> <<>>]
    ELSE [path |-> [k \in 1..Len(path) |-> path[k]],
          dogbones |-> ApplyDogbonesLoop(0, path, Div(bitDiameter, 2))]

\* closed outlines, counter-clockwise from their bottom-left corner: a
\* rectangle, a rectangle with a point in the middle of its bottom edge, an L
\* and a U
Outlines ==
    {RectCorners(0, 0, mm(30), mm(20)),
     <<<<0, 0>>, <<mm(15), 0>>, <<mm(30), 0>>, <<mm(30), mm(20)>>, <<0, mm(20)>>>>,
     <<<<0, 0>>, <<mm(30), 0>>, <<mm(30), mm(10)>>, <<mm(10), mm(10)>>,
       <<mm(10), mm(30)>>, <<0, mm(30)>>>>,
     <<<<0, 0>>, <<mm(30), 0>>, <<mm(30), mm(30)>>, <<mm(20), mm(30)>>,
       <<mm(20), mm(10)>>, <<mm(10), mm(10)>>, <<mm(10), mm(30)>>, <<0, mm(30)>>>>}

\* the outline started k points further on
StartedAt(path, k) == [i \in 1..Len(path) |-> path[((i - 1 + k) % Len(path)) + 1]]

\* the outline walked the other way round
Reversed(path) == [i \in 1..Len(path) |-> path[Len(path) + 1 - i]]

MovedBy(path, o) == [i \in 1..Len(path) |-> <<path[i][1] + o[1], path[i][2] + o[2]>>]

\* the paths applyDogbonesToPath is called with: every outline from every
\* starting point, both ways round, and paths too short to be outlines
PathSpace ==
    LET Walks(path) == UNION {{StartedAt(path, k), Reversed(StartedAt(path, k))} :
                                  k \in 0..(Len(path) - 1)}
        walks == UNION {Walks(path) : path \in Outlines}
        short == {<<>>, <<<<0, 0>>>>, <<<<0, 0>>, <<mm(30), 0>>>>}
    IN  {MovedBy(path, o) : path \in walks \cup short, o \in {<<0, 0>>, <<-mm(5), mm(3)>>}}

PathInit ==
    /\ invoked \in [fn : {"applyDogbonesToPath"}, path : PathSpace,
                    bitDiameter : BitDiameters]
    /\ returned = NotReturned
    /\ config = DEFAULT_ASSEMBLY_CONFIG
    /\ clock = 0
    /\ hook = NotMounted
    /\ result = NotCalled
    /\ rect = NoRect
    /\ dogbones = <<>>
    /\ nesting = NoNesting
    /\ nested = NotNested

\* applyDogbonesToPath(path, bitDiameter)
ApplyDogbonesToPath ==
    /\ invoked /= NotInvoked
    /\ invoked.fn = "applyDogbonesToPath"
    /\ returned' = [value |-> applyDogbonesToPath(invoked.path, invoked.bitDiameter)]
    /\ UNCHANGED <<config, clock, hook, result, rect, dogbones, nesting, nested, invoked>>

PathNext == ApplyDogbonesToPath

PathSpec == PathInit /\ [][PathNext]_vars

(* C26 *)
PathReturned ==
    /\ invoked /= NotInvoked
    /\ invoked.fn = "applyDogbonesToPath"
    /\ returned /= NotReturned

\* a closed path of three points or more whose edges run along the axes and
\* which goes round counter-clockwise (its turns sum up to a full left turn)
RectilinearCounterClockwise(path) ==
    /\ Len(path) >= 3
    /\ \A i \in 1..Len(path) :
           \/ path[i][1] = path[(i % Len(path)) + 1][1]
           \/ path[i][2] = path[(i % Len(path)) + 1][2]
    /\ SumOfTurns(path, 1) > 0

\* the indices (from 0) of the vertices where a counter-clockwise path turns
\* right, into the material: its concave vertices
ConcaveIndices(path) == {i - 1 : i \in {k \in 1..Len(path) : TurnAt(path, k) < 0}}

FilletIndices(fillets) == {fillets[k].cornerIndex : k \in DOMAIN fillets}

PositiveDimensions(component) ==
    /\ component.dimensions[1] > 0
    /\ component.dimensions[2] > 0
    /\ component.dimensions[3] > 0

\* C29: for every configuration that passes validateConfig, every component
\* of the Assembly returned by buildAssembly (carcass panels, back panel,
\* adjustable and fixed shelves, drawer fronts, sides, backs and bottoms) has
\* all three dimensions strictly greater than 0.
C29_ComponentDimensionsPositive ==
    \A a \in BuiltAssemblies :
        \A k \in DOMAIN a.components : PositiveDimensions(a.components[k])

(* C30 *)
\* the left side of the box of the drawer with 1-based number n
DrawerBoxSide(a, n) ==
    LET IsLeftSide(c) == c.id = "drawer_side_left_" \o ToString(n)
    IN  SelectSeq(a.components, IsLeftSide)[1]

BoxBottom(a, n) == DrawerBoxSide(a, n).position[2]

BoxTop(a, n) == DrawerBoxSide(a, n).position[2] + DrawerBoxSide(a, n).dimensions[2]

DrawerBoxesFit(a) ==
    LET cfg == a.config
        count == cfg.features.drawers.count
        dims == calculateDrawerDimensions(cfg, 0, count)
    IN  /\ dims.boxHeight <= dims.frontHeight
        /\ \A n \in 1..count :
               /\ OpeningBottom(cfg, n - 1, dims.frontHeight) <= BoxBottom(a, n)
               /\ BoxTop(a, n) <= OpeningBottom(cfg, n - 1, dims.frontHeight) + dims.frontHeight
        /\ \A n \in 1..(count - 1) : BoxTop(a, n) <= BoxBottom(a, n + 1)
        /\ ToeKickHeight(cfg) + cfg.material.thickness <= BoxBottom(a, 1)
        /\ BoxTop(a, count) <= cfg.globalBounds.h - cfg.material.thickness

\* C30: for every configuration that passes validateConfig with drawers
\* enabled and count >= 1, each drawer box fits inside its own opening:
\* boxHeight <= frontHeight, so the box of drawer i ends at or below the start
\* of the box of drawer i+1, vertically adjacent boxes never overlap, and the
\* stacked boxes stay within the interior height.
C30_DrawerBoxesFitTheirOpenings ==
    \A a \in BuiltAssemblies :
        a.config.features.drawers.enabled /\ a.config.features.drawers.count >= 1
            => DrawerBoxesFit(a)

\* the same, for drawers whose even share of the interior is at least the
\* 50 mm minimum box height
C30_DrawerBoxesFitFromMinimumHeight ==
    \A a \in BuiltAssemblies :
        /\ a.config.features.drawers.enabled
        /\ a.config.features.drawers.count >= 1
        /\ calculateDrawerDimensions(a.config, 0, a.config.features.drawers.count).frontHeight
               >= DRAWER_DEFAULTS.MIN_HEIGHT
        => DrawerBoxesFit(a)

=============================================================================
